---------------------------- MODULE Spec2Model ----------------------------
(***************************************************************************)
(* A model of the ncc code generator (src/ncc/src/codegen.rs): the walk of *)
(* Unit::gen_code over a resolved, type-checked AST, the text it emits and *)
(* the result it hands to its caller.                                      *)
(*                                                                         *)
(* The emitted text is a sequence of instruction records, one per line of  *)
(* output.  A label is a record [p, n]: a label made by gen_sym is         *)
(* "_<p>_<n>" with n >= 0, a source name (a function, a global, a reserved *)
(* symbol) has n = -1.                                                     *)
(***************************************************************************)
EXTENDS Integers, Sequences, FiniteSets, TLC

(***************************************************************************)
(* Bounds of the model.                                                    *)
(***************************************************************************)
\* functions in one unit
MaxFuns == 2
\* calls of Unit::gen_code on the same unit
MaxCalls == 2
\* nesting of control statements around a leaf statement
MaxNest == 2
\* arguments of a Call or Asm
MaxArgs == 2
\* the operand-stack depth relative to a fragment's entry is tracked in
\* -MaxAbsDepth .. MaxAbsDepth (saturating)
MaxAbsDepth == 4

(***************************************************************************)
(* Types (src/ncc/src/ast.rs).  A type is flattened to a record: k is the  *)
(* variant, n the width of an integer, ek/en the variant and width of the  *)
(* element of a Pointer or Array, c the length of an Array.                *)
(***************************************************************************)
Ty(k, n, ek, en, c) == [k |-> k, n |-> n, ek |-> ek, en |-> en, c |-> c]
Void == Ty("Void", 0, "", 0, 0)
UInt(n) == Ty("UInt", n, "", 0, 0)
SInt(n) == Ty("Int", n, "", 0, 0)
Pointer(t) == Ty("Pointer", 0, t.k, t.n, t.c)
Array(t, c) == Ty("Array", 0, t.k, t.n, c)
FunT == Ty("Fun", 0, "", 0, 0)

\* Type::elem_type
ElemType(t) == Ty(t.ek, t.en, "", 0, t.c)

\* Type::sizeof (bytes); -1 stands for the panic of the Void and Fun arms
Sizeof(t) ==
    CASE t.k \in {"UInt", "Int"} -> t.n \div 8
      [] t.k = "Pointer" -> 8
      [] t.k = "Array" -> (t.en \div 8) * t.c
      [] OTHER -> -1

\* Type::is_signed
IsSigned(t) == t.k = "Int"

\* Type::align_bytes: sizeof for scalars and pointers, the element's for arrays
AlignBytes(t) == IF t.k = "Array" THEN t.en \div 8 ELSE Sizeof(t)

(***************************************************************************)
(* The emitted text.                                                       *)
(***************************************************************************)
Label(p, n) == [p |-> p, n |-> n]
Name(s) == Label(s, -1)
NoLabel == Label("", -1)

Ins4(op, l, n, m) == [op |-> op, l |-> l, n |-> n, m |-> m]
Ins(op) == Ins4(op, NoLabel, 0, 0)
InsN(op, n) == Ins4(op, NoLabel, n, 0)
InsL(op, l) == Ins4(op, l, 0, 0)
\* "<label>:"
Def(l) == InsL("label", l)
\* "# ..." and an empty line
Comment(s) == InsL("#", Name(s))
Blank == Ins("blank")


(***************************************************************************)
(* The AST (src/ncc/src/ast.rs).  Every expression is one record shape:    *)
(* k the variant, t the type the type checker computed for it, op the      *)
(* operator of a Unary or Binary (the text of an Asm), d the declaration   *)
(* of a Ref, n the value of an Int, nt the new_type of a Cast (the t of a  *)
(* SizeofType, the out_type of an Asm), kids the children in source order. *)
(***************************************************************************)
Decl(k, name, idx, t) == [k |-> k, name |-> name, idx |-> idx, t |-> t]
NoDecl == Decl("", "", 0, Void)
Global(name, t) == Decl("Global", name, 0, t)
Arg(idx, t) == Decl("Arg", "", idx, t)
Local(idx, t) == Decl("Local", "", idx, t)
Fun(name) == Decl("Fun", name, 0, FunT)

Expr(k, t, op, d, n, nt, kids) ==
    [k |-> k, t |-> t, op |-> op, d |-> d, n |-> n, nt |-> nt, kids |-> kids]
NoExpr == Expr("None", Void, "", NoDecl, 0, Void, <<>>)
EInt(v) == Expr("Int", UInt(64), "", NoDecl, v, Void, <<>>)
EString(s) == Expr("String", Pointer(UInt(8)), s, NoDecl, 0, Void, <<>>)
ERef(d) == Expr("Ref", d.t, "", d, 0, Void, <<>>)
ECast(nt, child) == Expr("Cast", nt, "", NoDecl, 0, nt, <<child>>)
ESizeofExpr(child) == Expr("SizeofExpr", UInt(64), "", NoDecl, 0, Void, <<child>>)
ESizeofType(t) == Expr("SizeofType", UInt(64), "", NoDecl, 0, t, <<>>)
EUnary(op, child, t) == Expr("Unary", t, op, NoDecl, 0, Void, <<child>>)
EBinary(op, lhs, rhs, t) == Expr("Binary", t, op, NoDecl, 0, Void, <<lhs, rhs>>)
ETernary(test, a, b, t) == Expr("Ternary", t, "", NoDecl, 0, Void, <<test, a, b>>)
ECall(callee, args, t) == Expr("Call", t, "", NoDecl, 0, Void, <<callee>> \o args)
EAsm(text, args, out_type) == Expr("Asm", out_type, text, NoDecl, 0, out_type, args)

\* Expr::eval_type: the type the checker left on the node
EvalType(e) == e.t

\* Expr::Asm { out_type: Type::Void, .. }
IsVoidAsm(e) == e.k = "Asm" /\ e.nt.k = "Void"

(***************************************************************************)
(* The generator's state while it walks: out is the output buffer (append  *)
(* only), id is SymGen.next_id, err the ParseError a `?` is carrying up    *)
(* ("" for none), abort whether a todo!(), panic!() or failed assert! has  *)
(* ended the process.  log (the labels gen_sym returned, in call order)    *)
(* and spans (the place in out of the code of every statement and          *)
(* expression lowered) record the walk and are read by no step of it.      *)
(***************************************************************************)
Halted(st) == st.err # "" \/ st.abort
Emit(st, instrs) == IF Halted(st) THEN st ELSE [st EXCEPT !.out = @ \o instrs]
Fail(st, msg) == IF Halted(st) THEN st ELSE [st EXCEPT !.err = msg]
Abort(st) == IF Halted(st) THEN st ELSE [st EXCEPT !.abort = TRUE]

\* SymGen::gen_sym: the name, and the counter after the call
GenSymName(prefix, id) == Label(prefix, id)
GenSymNextStuck(id) == id
GenSymNext(id) == id + 1
Sym(prefix, st) == GenSymName(prefix, st.id)
Bump(prefix, st) ==
    IF Halted(st) THEN st
    ELSE [st EXCEPT !.id = GenSymNext(@), !.log = Append(@, Sym(prefix, st))]

Span(kind, tag, lo, hi) == [kind |-> kind, tag |-> tag, lo |-> lo, hi |-> hi]
AddSpan(st0, st1, kind, tag) ==
    IF Halted(st1) THEN st1
    ELSE [st1 EXCEPT !.spans = @ \cup {Span(kind, tag, Len(st0.out) + 1, Len(st1.out))}]

\* push sizeof(t); Type::sizeof panics on Void
PushSizeof(st, t) ==
    IF Sizeof(t) < 0 THEN Abort(st) ELSE Emit(st, <<InsN("push", Sizeof(t))>>)

\* The text of an Asm is spliced in verbatim.  It is taken to consume the
\* arguments pushed for it and to leave one word unless out_type is Void:
\* n is the net change of the stack depth.
AsmText(e) ==
    Ins4("asm", Name(e.op), (IF e.nt.k = "Void" THEN 0 ELSE 1) - Len(e.kids), 0)

(***************************************************************************)
(* Operator helpers.                                                       *)
(***************************************************************************)
IsInt(t) == t.k \in {"UInt", "Int"}
Max(a, b) == IF a >= b THEN a ELSE b

\* emit_int_op
EmitIntOp(out_type, signed_op, unsigned_op, st) ==
    LET out_bits == Sizeof(out_type) * 8
        op_bits == IF out_bits = 64 THEN 64 ELSE 32
        op == IF IsSigned(out_type) THEN signed_op ELSE unsigned_op
    IN  IF Sizeof(out_type) < 0 \/ out_bits > 64 THEN Abort(st)
        ELSE Emit(st, <<InsN(op, op_bits)>>
                      \o (IF out_bits < 32 THEN <<InsN("trunc_u", out_bits)>> ELSE <<>>))

\* emit_cmp_op
EmitCmpOp(lhs_type, rhs_type, signed_op, unsigned_op, st) ==
    LET is_signed == IsSigned(lhs_type) /\ IsSigned(rhs_type)
        num_bits == IF IsInt(lhs_type) /\ IsInt(rhs_type)
                    THEN Max(lhs_type.n, rhs_type.n) ELSE 64
    IN  Emit(st, <<InsN(IF is_signed THEN signed_op ELSE unsigned_op,
                        IF num_bits <= 32 THEN 32 ELSE 64)>>)

\* Expr::gen_code, Expr::Ref
GenRef(d, st) ==
    CASE d.k = "Arg" -> Emit(st, <<InsN("get_arg", d.idx)>>)
      [] d.k = "Local" -> Emit(st, <<InsN("get_local", d.idx)>>)
      [] d.k = "Global" ->
            LET s1 == Emit(st, <<InsL("push_label", Name(d.name))>>)
            IN  CASE d.t.k = "UInt" -> Emit(s1, <<InsN("load_u", d.t.n)>>)
                  [] d.t.k = "Int" /\ d.t.n = 64 -> Emit(s1, <<InsN("load_u", 64)>>)
                  [] d.t.k = "Int" /\ d.t.n = 32 ->
                        Emit(s1, <<InsN("load_u", 32), Ins("sx_i32_i64")>>)
                  [] d.t.k \in {"Pointer", "Fun", "Array"} -> s1
                  [] OTHER -> Abort(s1)
      [] d.k = "Fun" -> Emit(st, <<InsL("push_label", Name(d.name))>>)
      [] OTHER -> Abort(st)

\* Expr::gen_code, Expr::Cast: what follows the child's code
CastTail(new_type, child_type, st) ==
    LET m == new_type.n
        n == child_type.n
        nk == new_type.k
        ck == child_type.k
    IN  CASE nk = "UInt" /\ ck = "UInt" -> st
          [] nk = "UInt" /\ ck = "Int" /\ m >= n -> st
          [] nk = "Int" /\ ck = "UInt" /\ m >= n -> st
          [] nk = "UInt" /\ ck = "Int" /\ m < n -> Emit(st, <<InsN("trunc_u", m)>>)
          [] nk = "Int" /\ ck = "UInt" /\ m < n -> Emit(st, <<InsN("trunc_u", m)>>)
          [] nk = "Pointer" /\ ck = "Pointer" -> st
          [] nk = "Pointer" /\ ck = "Array" -> st
          [] nk = "UInt" /\ m = 64 /\ ck = "Pointer" -> st
          [] nk = "Pointer" /\ ck = "UInt" /\ n = 64 -> st
          [] OTHER -> Abort(st)

\* load_u{bits} / store_u{bits} of the element a pointer type points to;
\* Type::elem_type panics unless the type is a Pointer, Type::sizeof on Void
ElemAccess(op, ptr_type, st) ==
    IF ptr_type.k # "Pointer" \/ Sizeof(ElemType(ptr_type)) < 0 THEN Abort(st)
    ELSE Emit(st, <<InsN(op, Sizeof(ElemType(ptr_type)) * 8)>>)

\* Expr::gen_code, Expr::Unary: what follows the child's code
UnaryTail(op, child, st) ==
    CASE op = "Deref" ->
            LET child_type == EvalType(child)
            IN  IF child_type.k = "Pointer" /\ child_type.ek = "Array" THEN st
                ELSE ElemAccess("load_u", child_type, st)
      [] op = "Minus" -> Emit(st, <<InsN("push", 0), Ins("swap"), InsN("sub_u", 64)>>)
      [] op = "BitNot" ->
            LET size == Sizeof(EvalType(child))
                num_bits == size * 8
            IN  IF size < 0 THEN Abort(st)
                ELSE Emit(st, <<InsN("not_u", IF num_bits <= 32 THEN 32 ELSE 64)>>
                              \o (IF num_bits < 32 THEN <<InsN("trunc_u", num_bits)>>
                                  ELSE <<>>))
      [] op = "Not" -> Emit(st, <<InsN("push", 0), InsN("eq_u", 64)>>)
      [] OTHER -> Abort(st)

\* gen_bin_op: the match on op after both operands
BinOpTail(op, lhs_type, rhs_type, out_type, st) ==
    LET signed_op == IsSigned(lhs_type) /\ IsSigned(rhs_type)
        ints == IsInt(lhs_type) /\ IsInt(rhs_type)
        scaled(size, arith) ==
            IF size < 0 THEN Abort(st)
            ELSE Emit(st, <<InsN("push", size), InsN("mul_u", 64), InsN(arith, 64)>>)
    IN  CASE op = "BitAnd" -> EmitIntOp(out_type, "and_u", "and_u", st)
          [] op = "BitOr" -> EmitIntOp(out_type, "or_u", "or_u", st)
          [] op = "BitXor" -> EmitIntOp(out_type, "xor_u", "xor_u", st)
          [] op = "LShift" -> EmitIntOp(out_type, "lshift_u", "lshift_u", st)
          [] op = "RShift" -> EmitIntOp(out_type, "rshift_i", "rshift_u", st)
          [] op = "Add" ->
                CASE lhs_type.k = "Pointer" /\ IsInt(rhs_type) ->
                        scaled(Sizeof(ElemType(lhs_type)), "add_u")
                  [] lhs_type.k = "Array" /\ IsInt(rhs_type) ->
                        scaled(Sizeof(ElemType(lhs_type)), "add_u")
                  [] ints -> EmitIntOp(out_type, "add_u", "add_u", st)
                  [] OTHER -> Abort(st)
          [] op = "Sub" ->
                CASE lhs_type.k = "Pointer" /\ IsInt(rhs_type) ->
                        scaled(Sizeof(ElemType(lhs_type)), "sub_u")
                  [] ints -> EmitIntOp(out_type, "sub_u", "sub_u", st)
                  [] OTHER -> Abort(st)
          [] op = "Mul" -> Emit(st, <<InsN("mul_u", 64)>>)
          [] op = "Div" -> Emit(st, <<InsN(IF signed_op THEN "div_i" ELSE "div_u", 64)>>)
          [] op = "Mod" -> Emit(st, <<InsN(IF signed_op THEN "mod_i" ELSE "mod_u", 64)>>)
          [] op = "Eq" -> EmitCmpOp(lhs_type, rhs_type, "eq_u", "eq_u", st)
          [] op = "Ne" -> EmitCmpOp(lhs_type, rhs_type, "ne_u", "ne_u", st)
          [] op = "Lt" -> EmitCmpOp(lhs_type, rhs_type, "lt_i", "lt_u", st)
          [] op = "Le" -> EmitCmpOp(lhs_type, rhs_type, "le_i", "le_u", st)
          [] op = "Gt" -> EmitCmpOp(lhs_type, rhs_type, "gt_i", "gt_u", st)
          [] op = "Ge" -> EmitCmpOp(lhs_type, rhs_type, "ge_i", "ge_u", st)
          [] OTHER -> Abort(st)

\* gen_assign to Decl::Global: the store chosen by the global's type
GlobalStore(t, st) ==
    CASE IsInt(t) -> Emit(st, <<InsN("store_u", t.n)>>)
      [] t.k = "Pointer" -> Emit(st, <<InsN("store_u", 64)>>)
      [] OTHER -> Abort(st)

\* gen_assign to a Deref or a Global when the value is needed: the copy of
\* the value, which lies below the address, is put on top
StashAddress == <<InsN("getn", 0)>>
StashValue == <<InsN("getn", 1)>>

\* gen_assign to an Arg or a Local: if need_value { out.push_str("dup;\n"); }
DupNever(need_value) == <<>>
DupIfNeeded(need_value) == IF need_value THEN <<Ins("dup")>> ELSE <<>>

\* gen_bin_op, And: the text after the test of the right operand
AndEndNoJump(false_label, done_label) ==
    <<InsN("push", 1), Def(false_label), InsN("push", 0), Def(done_label)>>
AndEnd(false_label, done_label) ==
    <<InsN("push", 1), InsL("jmp", done_label),
      Def(false_label), InsN("push", 0), Def(done_label)>>

(***************************************************************************)
(* The expression emitter.                                                 *)
(***************************************************************************)
RECURSIVE GenExpr(_, _), GenExprs(_, _), GenBinOp(_, _, _, _, _), GenAssign(_, _, _, _)

\* for arg in args { arg.gen_code(sym, out)?; }
GenExprs(args, st) ==
    IF args = <<>> THEN st ELSE GenExprs(Tail(args), GenExpr(Head(args), st))

\* gen_assign
GenAssign(lhs, rhs, need_value, st) ==
    CASE lhs.k = "Unary" ->
            IF lhs.op = "Deref" THEN
                LET child == lhs.kids[1]
                    ptr_type == EvalType(child)
                    ok == ptr_type.k = "Pointer" /\ Sizeof(ElemType(ptr_type)) >= 0
                    s1 == IF need_value
                          THEN Emit(GenExpr(child, GenExpr(rhs, st)), StashValue)
                          ELSE GenExpr(rhs, GenExpr(child, st))
                IN  IF ok THEN ElemAccess("store_u", ptr_type, s1) ELSE Abort(st)
            ELSE Abort(st)
      [] lhs.k = "Ref" ->
            LET d == lhs.d
                dup == DupIfNeeded(need_value)
            IN  CASE d.k = "Arg" ->
                        Emit(GenExpr(rhs, st), dup \o <<InsN("set_arg", d.idx)>>)
                  [] d.k = "Local" ->
                        Emit(GenExpr(rhs, st), dup \o <<InsN("set_local", d.idx)>>)
                  [] d.k = "Global" ->
                        LET push == <<InsL("push_label", Name(d.name))>>
                            s1 == IF need_value
                                  THEN Emit(GenExpr(rhs, st), push \o StashValue)
                                  ELSE GenExpr(rhs, Emit(st, push))
                        IN  GlobalStore(d.t, s1)
                  [] OTHER -> Abort(st)
      [] OTHER -> Abort(st)

\* gen_bin_op
GenBinOp(op, lhs, rhs, out_type, st) ==
    CASE op = "Assign" -> GenAssign(lhs, rhs, TRUE, st)
      [] op = "Comma" -> GenExpr(rhs, Emit(GenExpr(lhs, st), <<Ins("pop")>>))
      [] op = "And" ->
            LET false_label == Sym("and_false", st)
                s1 == Bump("and_false", st)
                done_label == Sym("and_done", s1)
                s2 == Bump("and_done", s1)
                s3 == Emit(GenExpr(lhs, s2), <<InsL("jz", false_label)>>)
                s4 == Emit(GenExpr(rhs, s3), <<InsL("jz", false_label)>>)
            IN  Emit(s4, AndEnd(false_label, done_label))
      [] op = "Or" ->
            LET true_label == Sym("or_true", st)
                s1 == Bump("or_true", st)
                done_label == Sym("or_done", s1)
                s2 == Bump("or_done", s1)
                s3 == Emit(GenExpr(lhs, s2), <<InsL("jnz", true_label)>>)
                s4 == Emit(GenExpr(rhs, s3), <<InsL("jnz", true_label)>>)
            IN  Emit(s4, <<InsN("push", 0), InsL("jmp", done_label),
                           Def(true_label), InsN("push", 1), Def(done_label)>>)
      [] OTHER ->
            BinOpTail(op, EvalType(lhs), EvalType(rhs), out_type,
                      GenExpr(rhs, GenExpr(lhs, st)))

\* What the span of an expression's code is tagged with
ExprTag(e) == IF IsVoidAsm(e) THEN "VoidAsm" ELSE e.k

\* Expr::gen_code
GenExpr(e, st) ==
    IF Halted(st) THEN st
    ELSE LET r ==
            CASE e.k = "Int" -> Emit(st, <<InsN("push", e.n)>>)
              [] e.k = "Ref" -> GenRef(e.d, st)
              [] e.k = "Cast" ->
                    CastTail(e.nt, EvalType(e.kids[1]), GenExpr(e.kids[1], st))
              [] e.k = "SizeofExpr" -> PushSizeof(st, EvalType(e.kids[1]))
              [] e.k = "SizeofType" -> PushSizeof(st, e.nt)
              [] e.k = "Unary" -> UnaryTail(e.op, e.kids[1], GenExpr(e.kids[1], st))
              [] e.k = "Binary" ->
                    GenBinOp(e.op, e.kids[1], e.kids[2], EvalType(e), st)
              [] e.k = "Ternary" ->
                    LET false_label == Sym("and_false", st)
                        s1 == Bump("and_false", st)
                        done_label == Sym("and_done", s1)
                        s2 == Bump("and_done", s1)
                        s3 == Emit(GenExpr(e.kids[1], s2), <<InsL("jz", false_label)>>)
                        s4 == Emit(GenExpr(e.kids[2], s3), <<InsL("jmp", done_label)>>)
                        s5 == GenExpr(e.kids[3], Emit(s4, <<Def(false_label)>>))
                    IN  Emit(s5, <<Def(done_label)>>)
              [] e.k = "Call" ->
                    LET callee == e.kids[1]
                        args == Tail(e.kids)
                    IN  IF callee.k = "Ref" /\ callee.d.k = "Fun"
                        THEN Emit(GenExprs(args, st),
                                  <<Ins4("call", Name(callee.d.name), Len(args), 0)>>)
                        ELSE Abort(st)
              [] e.k = "Asm" -> Emit(GenExprs(e.kids, st), <<AsmText(e)>>)
              [] OTHER -> Abort(st)
         IN  AddSpan(st, r, "expr", ExprTag(e))

(***************************************************************************)
(* Statements (src/ncc/src/ast.rs): k the variant, e the expression of an  *)
(* Expr or ReturnExpr and the test of an If or loop, e2 the increment of a *)
(* For, init the optional init statement of a For, kids the then (body,    *)
(* children) statements, els the optional else statement.                  *)
(***************************************************************************)
Stmt(k, e, e2, init, kids, els) ==
    [k |-> k, e |-> e, e2 |-> e2, init |-> init, kids |-> kids, els |-> els]
SExpr(e) == Stmt("Expr", e, NoExpr, <<>>, <<>>, <<>>)
SBreak == Stmt("Break", NoExpr, NoExpr, <<>>, <<>>, <<>>)
SContinue == Stmt("Continue", NoExpr, NoExpr, <<>>, <<>>, <<>>)
SReturnVoid == Stmt("ReturnVoid", NoExpr, NoExpr, <<>>, <<>>, <<>>)
SReturnExpr(e) == Stmt("ReturnExpr", e, NoExpr, <<>>, <<>>, <<>>)
SIf(test, then, els) == Stmt("If", test, NoExpr, <<>>, <<then>>, els)
SWhile(test, body) == Stmt("While", test, NoExpr, <<>>, <<body>>, <<>>)
SDoWhile(test, body) == Stmt("DoWhile", test, NoExpr, <<>>, <<body>>, <<>>)
SFor(init, test, incr, body) == Stmt("For", test, incr, init, <<body>>, <<>>)
SBlock(stmts) == Stmt("Block", NoExpr, NoExpr, <<>>, stmts, <<>>)
SVarDecl(d, e) == Stmt("VarDecl", e, ERef(d), <<>>, <<>>, <<>>)

BreakMsg == "break outside of loop context"
ContinueMsg == "continue outside of loop context"

\* Stmt::Break and Stmt::Continue: label is the Option (<<>> for None)
JumpOrSkip(label, msg, st) ==
    IF label = <<>> THEN st ELSE Emit(st, <<InsL("jmp", label[1])>>)
JumpOrFail(label, msg, st) ==
    IF label = <<>> THEN Fail(st, msg) ELSE Emit(st, <<InsL("jmp", label[1])>>)

(***************************************************************************)
(* The statement emitter.                                                  *)
(***************************************************************************)
\* Stmt::For: the continue label handed to the body
ForContinueToTest(loop_label, cont_label) == loop_label
ForContinue(loop_label, cont_label) == cont_label

\* Stmt::While: the text after the body
WhileEndNoBreakLabel(loop_label, break_label) == <<InsL("jmp", loop_label)>>
WhileEnd(loop_label, break_label) == <<InsL("jmp", loop_label), Def(break_label)>>

RECURSIVE GenStmt(_, _, _, _), GenStmts(_, _, _, _), IfTail(_, _, _, _), ForTail(_, _)

\* for stmt in stmts { stmt.gen_code(break_label, cont_label, sym, out)?; }
GenStmts(stmts, break_label, cont_label, st) ==
    IF stmts = <<>> THEN st
    ELSE GenStmts(Tail(stmts), break_label, cont_label,
                  GenStmt(Head(stmts), break_label, cont_label, st))

\* Stmt::If after test_expr.gen_code: s1 is the state the test's code left
IfTail(s, break_label, cont_label, s1) ==
    LET false_label == Sym("if_false", s1)
        s2 == Emit(Bump("if_false", s1), <<InsL("jz", false_label)>>)
        join_label == Sym("if_join", s2)
    IN  IF s.els # <<>> THEN
            Emit(GenStmt(s.els[1], break_label, cont_label,
                         Emit(GenStmt(s.kids[1], break_label, cont_label,
                                      Bump("if_join", s2)),
                              <<InsL("jmp", join_label), Def(false_label)>>)),
                 <<Def(join_label)>>)
        ELSE Emit(GenStmt(s.kids[1], break_label, cont_label, s2), <<Def(false_label)>>)

\* Stmt::For after the init statement: s0 is the state the init's code left
ForTail(s, s0) ==
    LET loop_label == Sym("for_loop", s0)
        s1 == Bump("for_loop", s0)
        cont == Sym("for_cont", s1)
        s2 == Bump("for_cont", s1)
        brk == Sym("for_break", s2)
        s3 == Emit(Bump("for_break", s2), <<Def(loop_label)>>)
    IN  Emit(GenExpr(s.e2,
                     Emit(GenStmt(s.kids[1], <<brk>>, <<ForContinue(loop_label, cont)>>,
                                  Emit(GenExpr(s.e, s3), <<InsL("jz", brk)>>)),
                          <<Def(cont)>>)),
             <<Ins("pop"), InsL("jmp", loop_label), Def(brk)>>)

\* Stmt::gen_code
GenStmt(s, break_label, cont_label, st) ==
    IF Halted(st) THEN st
    ELSE AddSpan(st,
            CASE s.k = "Expr" ->
                    IF s.e.k = "Binary" /\ s.e.op = "Assign"
                    THEN GenAssign(s.e.kids[1], s.e.kids[2], FALSE, st)
                    ELSE Emit(GenExpr(s.e, st),
                              IF IsVoidAsm(s.e) THEN <<>> ELSE <<Ins("pop")>>)
              [] s.k = "Break" -> JumpOrFail(break_label, BreakMsg, st)
              [] s.k = "Continue" -> JumpOrFail(cont_label, ContinueMsg, st)
              [] s.k = "ReturnVoid" -> Emit(st, <<InsN("push", 0), Ins("ret")>>)
              [] s.k = "ReturnExpr" ->
                    Emit(GenExpr(s.e, st),
                         IF IsVoidAsm(s.e) THEN <<InsN("push", 0), Ins("ret")>>
                         ELSE <<Ins("ret")>>)
              [] s.k = "If" -> IfTail(s, break_label, cont_label, GenExpr(s.e, st))
              [] s.k = "While" ->
                    LET loop_label == Sym("while_loop", st)
                        s1 == Bump("while_loop", st)
                        brk == Sym("while_break", s1)
                        s2 == Emit(Bump("while_break", s1), <<Def(loop_label)>>)
                    IN  Emit(GenStmt(s.kids[1], <<brk>>, <<loop_label>>,
                                     Emit(GenExpr(s.e, s2), <<InsL("jz", brk)>>)),
                             WhileEnd(loop_label, brk))
              [] s.k = "DoWhile" ->
                    LET loop_label == Sym("dowhile_loop", st)
                        s1 == Bump("dowhile_loop", st)
                        cont == Sym("dowhile_cont", s1)
                        s2 == Bump("dowhile_cont", s1)
                        brk == Sym("dowhile_break", s2)
                        s3 == Emit(Bump("dowhile_break", s2), <<Def(loop_label)>>)
                    IN  Emit(GenExpr(s.e,
                                     Emit(GenStmt(s.kids[1], <<brk>>, <<cont>>, s3),
                                          <<Def(cont)>>)),
                             <<InsL("jz", brk), InsL("jmp", loop_label), Def(brk)>>)
              [] s.k = "For" ->
                    ForTail(s, IF s.init # <<>>
                               THEN GenStmt(s.init[1], break_label, cont_label, st)
                               ELSE st)
              [] s.k = "Block" -> GenStmts(s.kids, break_label, cont_label, st)
              [] OTHER -> Abort(st),
            "stmt", s.k)

(***************************************************************************)
(* The function emitter.                                                   *)
(***************************************************************************)
Function(name, params, body, num_locals) ==
    [name |-> name, params |-> params, body |-> body, num_locals |-> num_locals]

IsReturn(s) == s.k \in {"ReturnVoid", "ReturnExpr"}

\* Function::needs_final_return
NeedsFinalReturnNever(f) == FALSE
RECURSIVE EndsInReturn(_)
EndsInReturn(s) ==
    \/ IsReturn(s)
    \/ s.k \in {"Block", "If", "While", "DoWhile", "For"} /\ s.kids # <<>>
       /\ EndsInReturn(s.kids[Len(s.kids)])
NeedsFinalReturnDeep(f) == ~EndsInReturn(f.body)
NeedsFinalReturn(f) ==
    IF f.body.k = "Block" /\ Len(f.body.kids) > 0
       /\ IsReturn(f.body.kids[Len(f.body.kids)])
    THEN FALSE ELSE TRUE

\* Function::gen_code: the signature in comments
FunSig(f) == <<Comment(""), Ins4("#sig", Name(f.name), Len(f.params), 0), Comment("")>>

\* Function::gen_code: the label and the slots of the locals
Prologue(f, st) ==
    Emit(st, <<Def(Name(f.name))>> \o [i \in 1..f.num_locals |-> InsN("push", 0)])

\* Function::gen_code from the body on: s1 is the state after the prologue
FunctionBody(f, s1) ==
    Emit(AddSpan(s1, GenStmt(f.body, <<>>, <<>>, s1), "body", f.name),
         IF NeedsFinalReturn(f) THEN <<InsN("push", 0), Ins("ret")>> ELSE <<>>)

\* Function::gen_code
FunctionGenCode(f, st) ==
    Emit(AddSpan(Emit(st, FunSig(f)),
                 FunctionBody(f, Prologue(f, Emit(st, FunSig(f)))),
                 "fun", f.name),
         <<Blank>>)

(***************************************************************************)
(* The unit emitter.                                                       *)
(***************************************************************************)
GlobalVar(name, var_type, init_expr) ==
    [name |-> name, var_type |-> var_type, init_expr |-> init_expr]
Unit(global_vars, fun_decls) == [global_vars |-> global_vars, fun_decls |-> fun_decls]

EventLoopEnabled == Name("__EVENT_LOOP_ENABLED__")
RetToEventLoop == Name("__ret_to_event_loop__")

\* Unit::gen_code: the text before the globals
Header ==
    <<Comment(""), Comment("This file was automatically generated by the ncc compiler."),
      Comment(""), Blank, Ins(".data"), Blank,
      Comment("Reserve the first heap word so we can use address 0 as null"),
      Ins4(".u", NoLabel, 64, 0), Blank,
      Def(EventLoopEnabled), Ins4(".u", NoLabel, 8, 0), Blank>>

\* Unit::gen_code: one global variable.  The string of a .stringz is kept
\* as the source has it; escape_default acts when the line is written.
GenGlobal(g, st) ==
    LET t == g.var_type
        s1 == Emit(st, <<InsN(".align", AlignBytes(t)), Def(Name(g.name))>>)
        s2 == IF g.init_expr = <<>> THEN
                  IF Sizeof(t) < 0 THEN Abort(s1) ELSE Emit(s1, <<InsN(".zero", Sizeof(t))>>)
              ELSE LET e == g.init_expr[1] IN
                  CASE t.k = "UInt" /\ e.k = "Int" -> Emit(s1, <<Ins4(".u", NoLabel, t.n, e.n)>>)
                    [] t.k = "Int" /\ e.k = "Int" -> Emit(s1, <<Ins4(".i", NoLabel, t.n, e.n)>>)
                    [] t.k = "Pointer" /\ e.k = "Int" -> Emit(s1, <<Ins4(".u", NoLabel, 64, e.n)>>)
                    [] t.k = "Pointer" /\ e.k = "String" ->
                          Emit(s1, <<InsL(".stringz", Name(e.op))>>)
                    [] OTHER -> Abort(s1)
    IN  Emit(s2, <<Blank>>)

RECURSIVE GenGlobals(_, _)
\* for global in &self.global_vars { ... }
GenGlobals(globals, st) ==
    IF globals = <<>> THEN st ELSE GenGlobals(Tail(globals), GenGlobal(Head(globals), st))

\* Unit::gen_code: the start of the code section
CodeHeader == <<InsN("#rule", 78), Blank, Ins(".code"), Blank>>

\* the functions named main
MainFns(fun_decls) == SelectSeq(fun_decls, LAMBDA f : f.name = "main")

\* Unit::gen_code: the entry trampoline
TrampolineNoMain == <<InsN("push", 0), Ins("exit")>>
TrampolineMain ==
    <<Comment("call the main function and then exit"),
      Ins4("call", Name("main"), 0, 0),
      InsL("push_label", EventLoopEnabled),
      InsN("load_u", 8),
      InsL("jnz", RetToEventLoop),
      Ins("exit"),
      Def(RetToEventLoop),
      Ins("ret"),
      Blank>>
TrampolineIgnoresMain(fun_decls) == TrampolineNoMain
Trampoline(fun_decls) ==
    IF Len(MainFns(fun_decls)) = 1 THEN TrampolineMain ELSE TrampolineNoMain

\* The Result<String, ParseError> handed to the caller
OkResult(text) == [ok |-> TRUE, err |-> "", text |-> text]
ErrResult(msg) == [ok |-> FALSE, err |-> msg, text |-> <<>>]

\* fun.gen_code(&mut sym, &mut out)?: whether the `?` returns the error
PropagatesNever(r) == FALSE
Propagates(r) == r.err # ""

(***************************************************************************)
(* The units the generator is run on: resolved, type-checked ASTs over a   *)
(* few declarations.  Function bodies are Blocks (a function definition    *)
(* has a compound statement for its body) and the names of a unit's        *)
(* functions and globals are pairwise distinct.                            *)
(***************************************************************************)
U64 == UInt(64)
DArg0 == Arg(0, U64)
DArg1 == Arg(1, U64)
DArgP == Arg(0, Pointer(UInt(8)))
DArgPA == Arg(0, Pointer(Array(UInt(32), 4)))
DLocal0 == Local(0, U64)
DG == Global("g", U64)
DGi == Global("gi", SInt(32))
DGp == Global("p", Pointer(UInt(8)))
DGarr == Global("arr", Array(UInt(32), 4))
DGl == Global("gl", SInt(64))
DGb == Global("gb", UInt(8))
A == ERef(DArg0)
B == ERef(DArg1)
One == EInt(1)
AsmVoid == EAsm("syscall 1;", <<>>, Void)
AsmVal == EAsm("syscall 2;", <<>>, U64)
CallF(args) == ECall(ERef(Fun("f")), args, Void)
AssignTo(dest) == EBinary("Assign", dest, B, dest.t)

\* the destinations gen_assign lowers
Dests == {ERef(DArg0), ERef(DLocal0), ERef(DG), ERef(DGi), ERef(DGp),
          EUnary("Deref", ERef(DArgP), UInt(8))}

ArithOps == {"BitAnd", "BitOr", "BitXor", "LShift", "RShift", "Add", "Sub", "Mul",
             "Div", "Mod", "Eq", "Ne", "Lt", "Le", "Gt", "Ge"}

RECURSIVE ArgLists(_)
\* the argument lists of at most n arguments
ArgLists(n) == IF n = 0 THEN {<<>>} ELSE ArgLists(n - 1) \cup {Append(l, A) : l \in ArgLists(n - 1)}

\* expressions in value position, every kind Expr::gen_code lowers
ValueExprs ==
    {One, A, ERef(DLocal0), ERef(DG), ERef(DGi), ERef(DGp), ERef(DGarr), ERef(Fun("f")),
     ERef(DGl), ERef(DGb),
     ESizeofType(UInt(32)), ESizeofExpr(A), AsmVal,
     ECast(UInt(8), A), ECast(UInt(32), ERef(Arg(0, SInt(64)))),
     ECast(Pointer(UInt(8)), ERef(DGarr)), ECast(U64, ERef(DArgP)),
     EUnary("Deref", ERef(DArgP), UInt(8)),
     EUnary("Deref", ERef(DArgPA), Array(UInt(32), 4)),
     EUnary("Minus", A, U64), EUnary("BitNot", A, U64),
     EUnary("BitNot", ERef(Arg(0, UInt(8))), UInt(8)), EUnary("Not", A, U64),
     EBinary("Add", ERef(DArgP), B, Pointer(UInt(8))),
     EBinary("Add", ERef(DGarr), B, Pointer(UInt(32))),
     EBinary("Sub", ERef(DArgP), B, Pointer(UInt(8))),
     EBinary("Add", ERef(Arg(0, UInt(8))), ERef(Arg(1, UInt(8))), UInt(8)),
     EBinary("Lt", ERef(Arg(0, SInt(32))), ERef(Arg(1, SInt(32))), UInt(8)),
     EBinary("Comma", A, B, U64), EBinary("Comma", AssignTo(ERef(DLocal0)), A, U64),
     EBinary("And", A, B, U64), EBinary("Or", A, B, U64),
     EBinary("And", EBinary("Or", A, B, U64), ETernary(A, B, One, U64), U64),
     ETernary(A, B, One, U64),
     ETernary(EBinary("And", A, B, U64), EBinary("Or", A, B, U64), AssignTo(ERef(DG)), U64)}
    \cup {EBinary(op, A, B, U64) : op \in ArithOps}
    \cup {EBinary("Assign", ERef(DLocal0), AssignTo(d), U64) : d \in Dests}
    \cup {CallF(args) : args \in ArgLists(MaxArgs)}
    \cup {EAsm("syscall 3;", args, U64) : args \in ArgLists(MaxArgs)}

\* the integer types of the operands and results of the typed pools
OperandTypes == {UInt(8), SInt(64)}
ResultTypes == {UInt(8), SInt(16), UInt(32), SInt(64)}
TArg(idx, t) == ERef(Arg(idx, t))

\* every binary operator of the match in gen_bin_op on integer operands,
\* over the signedness of each operand and the width and signedness of the
\* type of the result
TypedBinaries ==
    {EBinary(op, TArg(0, t1), TArg(1, t2), t) :
        op \in ArithOps, t1 \in OperandTypes, t2 \in OperandTypes, t \in ResultTypes}

\* the casts between integer types
IntCasts == {ECast(nt, TArg(0, ct)) : nt \in ResultTypes, ct \in ResultTypes}

\* Add and Sub of an integer to a pointer and to an array
PointerArith ==
    {EBinary(op, lhs, rhs, Pointer(UInt(32))) :
        op \in {"Add", "Sub"},
        lhs \in {TArg(0, Pointer(UInt(32))), ERef(DGarr)},
        rhs \in {B, TArg(1, SInt(32))}}

\* the assignment of the second argument, of the type of dest, to dest
TypedAssign(dest) == EBinary("Assign", dest, TArg(1, dest.t), dest.t)

\* a = b = c: assignments of an assignment
NestedAssigns ==
    {EBinary("Assign", outer, TypedAssign(inner), outer.t) :
        outer \in {ERef(DLocal0), ERef(DG)}, inner \in Dests}

\* And and Or of the second argument to an operand that does not read it
LogicLefts ==
    {A, One, EInt(0), EBinary("And", A, One, U64), EBinary("Or", A, EInt(0), U64),
     EBinary("Or", EBinary("And", A, A, U64), EInt(0), U64)}
LogicExprs == {EBinary(op, l, B, U64) : op \in {"And", "Or"}, l \in LogicLefts}

\* expressions whose value is discarded where they stand; an Asm of
\* out_type Void produces no value
DiscardedExprs ==
    {AsmVoid, EBinary("Comma", AsmVoid, A, U64)}
    \cup {AssignTo(d) : d \in Dests}

\* constructs the generator has no arm for
UnloweredExprs ==
    {EString("s"), EUnary("AddressOf", A, Pointer(U64)), ECast(SInt(32), ERef(Arg(0, SInt(64)))),
     ECall(A, <<>>, U64), EBinary("Sub", ERef(DGarr), B, Pointer(UInt(32))),
     EBinary("Assign", EBinary("Add", A, B, U64), A, U64)}

LeafStmts ==
    {SExpr(e) : e \in ValueExprs \cup DiscardedExprs \cup UnloweredExprs
                      \cup TypedBinaries \cup IntCasts \cup PointerArith
                      \cup NestedAssigns \cup {TypedAssign(d) : d \in Dests}}
    \cup {SReturnExpr(e) : e \in LogicExprs}
    \cup {SReturnExpr(A), SReturnExpr(AsmVoid), SReturnExpr(CallF(<<>>)),
          SVarDecl(DLocal0, One), SBlock(<<SVarDecl(DLocal0, One)>>),
          SFor(<<SVarDecl(DLocal0, One)>>, A, One, SBlock(<<>>))}

\* leaves of the nests of control statements
CtlLeaves ==
    {SBreak, SContinue, SReturnVoid, SBlock(<<>>), SExpr(AssignTo(ERef(DLocal0))),
     SExpr(EBinary("And", A, B, U64))}

\* one more control statement around s
Wrap(s) ==
    {SIf(A, s, <<>>), SIf(A, SBlock(<<>>), <<s>>), SIf(B, s, <<SExpr(One)>>),
     SWhile(A, s), SDoWhile(EBinary("Or", A, B, U64), s),
     SFor(<<>>, A, AssignTo(ERef(DLocal0)), s), SFor(<<s>>, A, One, SBlock(<<>>)),
     SFor(<<>>, One, AsmVoid, s), SBlock(<<SExpr(One), s>>)}

RECURSIVE Nests(_)
Nests(k) ==
    IF k = 0 THEN CtlLeaves
    ELSE LET prev == Nests(k - 1) IN prev \cup UNION {Wrap(s) : s \in prev}

\* a global is assigned the second argument and then returned
RoundTrips ==
    {SBlock(<<SExpr(TypedAssign(ERef(d))), SReturnExpr(ERef(d))>>) :
        d \in {DG, DGi, DGp, DGl, DGb}}

\* the destinations in memory, and values without side effects for them
MemDests ==
    {ERef(DG), ERef(DGi), ERef(DGp), ERef(DGl), ERef(DGb),
     EUnary("Deref", ERef(DArgP), UInt(8)),
     EUnary("Deref", TArg(0, Pointer(UInt(32))), UInt(32)),
     EUnary("Deref", EBinary("Add", ERef(DArgP), B, Pointer(UInt(8))), UInt(8))}
PureValues(dest) == {TArg(1, dest.t), One, EBinary("Add", A, B, U64)}

\* an assignment as a statement, then the same assignment returned
BothForms ==
    UNION {{SBlock(<<SExpr(EBinary("Assign", d, v, d.t)),
                     SReturnExpr(EBinary("Assign", d, v, d.t))>>) : v \in PureValues(d)} :
             d \in MemDests}

\* a loop of kind k around body
Loop(k, body) ==
    CASE k = "While" -> SWhile(A, body)
      [] k = "DoWhile" -> SDoWhile(B, body)
      [] OTHER -> SFor(<<>>, A, AssignTo(ERef(DLocal0)), body)

\* a loop in a loop, each with a break and a continue under an If, those of
\* the outer loop after the inner loop has ended; and a break in the init
\* of a For inside a loop
LoopNests ==
    {SBlock(<<Loop(k1, SBlock(<<Loop(k2, SBlock(<<SIf(A, SBreak, <<SContinue>>)>>)),
                                 SIf(B, SContinue, <<SBreak>>)>>))>>) :
        k1 \in {"While", "DoWhile", "For"}, k2 \in {"While", "DoWhile", "For"}}
    \cup {SBlock(<<Loop(k, SFor(<<SIf(A, SBreak, <<SContinue>>)>>, A, One, SContinue))>>) :
            k \in {"While", "DoWhile", "For"}}

\* the bodies of the units of one function
RichBodies == {SBlock(<<s>>) : s \in LeafStmts \cup Nests(MaxNest)} \cup RoundTrips \cup LoopNests
                  \cup BothForms

\* the bodies of the functions of the units of several functions
UnitBodies ==
    {SBlock(<<>>),
     SBlock(<<SReturnVoid>>),
     SBlock(<<SBreak>>),
     SBlock(<<SContinue, SBreak>>),
     SBlock(<<SWhile(A, SBlock(<<SIf(B, SBreak, <<SContinue>>)>>))>>),
     SBlock(<<SIf(A, SReturnExpr(One), <<>>)>>),
     SBlock(<<SBlock(<<SReturnVoid>>)>>),
     SBlock(<<SFor(<<SBreak>>, A, One, SBlock(<<>>))>>),
     SBlock(<<SDoWhile(A, SFor(<<>>, A, AssignTo(ERef(DLocal0)), SContinue)),
              SReturnExpr(A)>>),
     SBlock(<<SWhile(A, SBreak), SContinue>>),
     SBlock(<<SExpr(ETernary(EBinary("And", A, B, U64), EBinary("Or", A, B, U64), One, U64))>>)}

FunNames == {"main", "f", "h"}

Range(q) == {q[i] : i \in 1..Len(q)}

RECURSIVE NameLists(_)
\* the lists of exactly n pairwise distinct function names
NameLists(n) ==
    IF n = 0 THEN {<<>>}
    ELSE UNION {{Append(l, x) : x \in FunNames \ Range(l)} : l \in NameLists(n - 1)}

StdParams == <<U64, U64>>

\* the lists of functions with these names and bodies among UnitBodies
FunLists(names) ==
    IF names = <<>> THEN {<<>>}
    ELSE {[i \in 1..Len(names) |-> Function(names[i], StdParams, bs[i], 1)] :
            bs \in [1..Len(names) -> UnitBodies]}

StdGlobals ==
    <<GlobalVar("g", U64, <<EInt(5)>>),
      GlobalVar("gi", SInt(32), <<>>),
      GlobalVar("p", Pointer(UInt(8)), <<EString("foo")>>),
      GlobalVar("arr", Array(UInt(32), 4), <<>>),
      GlobalVar("gl", SInt(64), <<EInt(7)>>),
      GlobalVar("gb", UInt(8), <<>>)>>

Units ==
    UNION {{Unit(StdGlobals, fs) : fs \in FunLists(names)} :
             names \in UNION {NameLists(n) : n \in 0..MaxFuns}}
    \cup {Unit(StdGlobals, <<Function("f", StdParams, b, 1)>>) : b \in RichBodies}
    \cup {Unit(gs, <<Function("main", <<>>, SBlock(<<>>), 0)>>) :
            gs \in {<<>>,
                    <<GlobalVar("q", Pointer(U64), <<EInt(0)>>), GlobalVar("i", SInt(64), <<EInt(7)>>)>>,
                    <<GlobalVar("bad", Array(UInt(8), 4), <<EInt(0)>>)>>}}

(***************************************************************************)
(* The state: unit is the AST the driver holds; pc is the place of the     *)
(* running call in Unit::gen_code ("idle" when none runs, "panic" once the *)
(* process has aborted), calls the calls started, fi the index of the next *)
(* function in the loop over fun_decls; out and sym are the locals of the  *)
(* running call; results are the values the calls returned, in order.      *)
(* log and spans record the walk of the latest call.                       *)
(***************************************************************************)
VARIABLES unit, pc, calls, fi, out, sym, log, spans, results

(***************************************************************************)
(* The state of the syscall registry tool (src/api/src/main.rs):           *)
(* syscalls_json is the content of the file, subsystems, idx_to_name and   *)
(* unique_names the locals of main of these names, tpc the place of main   *)
(* ("off" while the tool does not run), si and sj the places of its loops  *)
(* over the subsystems and over the syscalls of one; input keeps the       *)
(* content the file had when the tool started and is read by no step.      *)
(***************************************************************************)
VARIABLES syscalls_json, input, subsystems, idx_to_name, unique_names, tpc, si, sj

toolvars == <<syscalls_json, input, subsystems, idx_to_name, unique_names, tpc, si, sj>>
codegenvars == <<unit, pc, calls, fi, out, sym, log, spans, results>>
vars == <<unit, pc, calls, fi, out, sym, log, spans, results,
          syscalls_json, input, subsystems, idx_to_name, unique_names, tpc, si, sj>>

\* the tool does not run
ToolOff ==
    /\ syscalls_json = <<>>
    /\ input = <<>>
    /\ subsystems = <<>>
    /\ idx_to_name = <<>>
    /\ unique_names = {}
    /\ tpc = "off"
    /\ si = 0
    /\ sj = 0

\* SymGen::default()
SymGenStale == sym
SymGenDefault == 0

St == [out |-> out, id |-> sym, err |-> "", abort |-> FALSE, log |-> log, spans |-> spans]

Init ==
    /\ unit \in Units
    /\ pc = "idle"
    /\ calls = 0
    /\ fi = 0
    /\ out = <<>>
    /\ sym = 0
    /\ log = <<>>
    /\ spans = {}
    /\ results = <<>>
    /\ ToolOff

\* Unit::gen_code is entered: its locals, and the text up to the globals
Call ==
    /\ pc = "idle"
    /\ calls < MaxCalls
    /\ calls' = calls + 1
    /\ sym' = SymGenDefault
    /\ out' = Header
    /\ log' = <<>>
    /\ spans' = {}
    /\ fi' = 0
    /\ pc' = "data"
    /\ UNCHANGED <<unit, results>>
    /\ UNCHANGED toolvars

\* the loop over the globals
Globals ==
    /\ pc = "data"
    /\ LET r == GenGlobals(unit.global_vars, St)
       IN  /\ pc' = IF r.abort THEN "panic" ELSE "code"
           /\ out' = r.out
    /\ UNCHANGED <<unit, calls, fi, sym, log, spans, results>>
    /\ UNCHANGED toolvars

\* the start of the code section and the entry trampoline
EntryTrampoline ==
    /\ pc = "code"
    /\ out' = out \o CodeHeader \o Trampoline(unit.fun_decls)
    /\ fi' = 1
    /\ pc' = "funs"
    /\ UNCHANGED <<unit, calls, sym, log, spans, results>>
    /\ UNCHANGED toolvars

\* one turn of the loop over the functions: fun.gen_code(&mut sym, &mut out)?
GenFunction ==
    /\ pc = "funs"
    /\ fi <= Len(unit.fun_decls)
    /\ LET r == FunctionGenCode(unit.fun_decls[fi], St)
       IN  IF r.abort THEN
               /\ pc' = "panic"
               /\ UNCHANGED <<fi, out, sym, log, spans, results>>
           ELSE IF Propagates(r) THEN
               /\ results' = Append(results, ErrResult(r.err))
               /\ out' = <<>>
               /\ pc' = "idle"
               /\ UNCHANGED <<fi, sym, log, spans>>
           ELSE
               /\ out' = r.out
               /\ sym' = r.id
               /\ log' = r.log
               /\ spans' = r.spans
               /\ fi' = fi + 1
               /\ UNCHANGED <<pc, results>>
    /\ UNCHANGED <<unit, calls>>
    /\ UNCHANGED toolvars

\* Ok((out))
Return ==
    /\ pc = "funs"
    /\ fi > Len(unit.fun_decls)
    /\ results' = Append(results, OkResult(out))
    /\ out' = <<>>
    /\ pc' = "idle"
    /\ UNCHANGED <<unit, calls, fi, sym, log, spans>>
    /\ UNCHANGED toolvars

Next == Call \/ Globals \/ EntryTrampoline \/ GenFunction \/ Return

Spec == Init /\ [][Next]_vars

(***************************************************************************)
(* The emitted code as the VM runs it: the paths through a fragment of the *)
(* text and the operand-stack depth along them, relative to the depth at   *)
(* the fragment's first instruction.                                       *)
(***************************************************************************)
Jumps == {"jmp", "jz", "jnz"}

\* the net change of the stack depth an instruction makes
StackDelta(i) ==
    CASE i.op \in {"push", "push_label", "get_arg", "get_local", "dup", "getn"} -> 1
      [] i.op \in {"pop", "set_arg", "set_local", "jz", "jnz"} -> -1
      [] i.op = "store_u" -> -2
      [] i.op \in {"add_u", "sub_u", "mul_u", "div_i", "div_u", "mod_i", "mod_u",
                   "and_u", "or_u", "xor_u", "lshift_u", "rshift_i", "rshift_u",
                   "eq_u", "ne_u", "lt_i", "lt_u", "le_i", "le_u", "gt_i", "gt_u",
                   "ge_i", "ge_u"} -> -1
      [] i.op = "call" -> 1 - i.n
      [] i.op = "asm" -> i.n
      [] OTHER -> 0

Saturate(d) ==
    IF d > MaxAbsDepth THEN MaxAbsDepth ELSE IF d < -MaxAbsDepth THEN -MaxAbsDepth ELSE d

\* where label l is defined in code c (0: nowhere)
LabelPos(c, l) ==
    IF \E i \in 1..Len(c) : c[i] = Def(l)
    THEN CHOOSE i \in 1..Len(c) : c[i] = Def(l)
    ELSE 0

\* the places <<ip, depth>> one step after place p of code c; ip = Len(c) + 1
\* is the place just past the fragment
Succ(c, p) ==
    LET ip == p[1]
        i == c[ip]
        d == Saturate(p[2] + StackDelta(i))
        target == LabelPos(c, i.l)
        taken == IF target = 0 THEN {} ELSE {<<target, d>>}
    IN  IF ip > Len(c) THEN {}
        ELSE CASE i.op = "jmp" -> taken
               [] i.op \in {"jz", "jnz"} -> taken \cup {<<ip + 1, d>>}
               [] i.op \in {"ret", "exit"} -> {}
               [] OTHER -> {<<ip + 1, d>>}

RECURSIVE Closure(_, _, _)
Closure(c, seen, front) ==
    IF front = {} THEN seen
    ELSE LET next == UNION {Succ(c, p) : p \in front} \ seen
         IN  Closure(c, seen \cup next, next)

\* the places the paths entering c at its first instruction pass through
Reach(c) == Closure(c, {<<1, 0>>}, {<<1, 0>>})

\* the depths at which paths fall through past the last instruction of c
FallDepths(c) == {p[2] : p \in {q \in Reach(c) : q[1] = Len(c) + 1}}

\* a path leaves c by a jump to a label that c does not define
JumpsOut(c) ==
    \E p \in Reach(c) :
        p[1] <= Len(c) /\ c[p[1]].op \in Jumps /\ LabelPos(c, c[p[1]].l) = 0

\* the text of a span
Code(sp) == SubSeq(out, sp.lo, sp.hi)

\* the spans of one kind recorded for the functions emitted so far
Spans(kind) == {sp \in spans : sp.kind = kind}

(***************************************************************************)
(* Stack discipline.                                                       *)
(***************************************************************************)

\* C1: the code of every statement Stmt::gen_code has lowered leaves the
\* stack depth, on every path that falls through its end, where it was on
\* entry.
StmtStackNeutral ==
    pc = "funs" => \A sp \in Spans("stmt") : FallDepths(Code(sp)) \subseteq {0}

\* C2: the code of every expression Expr::gen_code has lowered, a void Asm
\* aside, falls through its end on every path, one word above the depth on
\* entry.
ExprPushesOne ==
    pc = "funs" =>
        \A sp \in Spans("expr") :
            sp.tag # "VoidAsm" => FallDepths(Code(sp)) = {1} /\ ~JumpsOut(Code(sp))

(***************************************************************************)
(* Labels.  A label made by gen_sym is written _prefix_N and a name of the *)
(* source (which does not start with an underscore) as it is: the two are  *)
(* told apart here by the number, -1 for a name of the source.             *)
(***************************************************************************)
DefinedAt(text) == {i \in 1..Len(text) : text[i].op = "label"}
DefinedLabels(text) == {text[i].l : i \in DefinedAt(text)}
JumpTargets(text) == {text[i].l : i \in {j \in 1..Len(text) : text[j].op \in Jumps}}

\* the function whose code holds place i of out (its "fun" span)
InFun(i, sp) == sp.kind = "fun" /\ sp.lo <= i /\ i <= sp.hi

\* C3: in the text of one call no label is defined twice, and the numbers
\* of the labels gen_sym returns during the call are those of a counter
\* that starts at zero and only grows, from one function to the next too.
LabelsUnique ==
    pc = "funs" =>
        /\ \A i, j \in DefinedAt(out) : out[i].l = out[j].l => i = j
        /\ \A i, j \in 1..Len(log) : i < j => 0 <= log[i].n /\ log[i].n < log[j].n

\* two functions of one unit have each taken a label of the same prefix
LabelsUniqueWitness ==
    /\ pc = "funs"
    /\ \E i, j \in 1..Len(log), sp1, sp2 \in spans :
          /\ log[i].p = log[j].p
          /\ sp1.hi < sp2.lo
          /\ InFun(LabelPos(out, log[i]), sp1)
          /\ InFun(LabelPos(out, log[j]), sp2)

\* C4: in the text of every call that returns Ok, the target of every jmp,
\* jz and jnz (that of the trampoline too) is a label the text defines.
LabelClosure ==
    \A k \in 1..Len(results) :
        results[k].ok => JumpTargets(results[k].text) \subseteq DefinedLabels(results[k].text)

\* a text with the trampoline's jnz, a break and a continue
LabelClosureWitness ==
    \E k \in 1..Len(results) :
        /\ results[k].ok
        /\ RetToEventLoop \in JumpTargets(results[k].text)
        /\ \E i, j \in 1..Len(results[k].text) :
              /\ results[k].text[i] = InsL("jmp", Label("while_break", results[k].text[i].l.n))
              /\ results[k].text[j] = InsL("jmp", Label("for_cont", results[k].text[j].l.n))

(***************************************************************************)
(* Returns.                                                                *)
(***************************************************************************)

\* C5: no path through the code of an emitted function, entered at its
\* label, falls past its last instruction or jumps out of it.
ReturnCoverage ==
    pc = "funs" =>
        \A sp \in Spans("fun") : FallDepths(Code(sp)) = {} /\ ~JumpsOut(Code(sp))

\* the last statement at the top level of the body of f is a return
LastTopLevelIsReturn(f) ==
    /\ f.body.k = "Block"
    /\ f.body.kids # <<>>
    /\ f.body.kids[Len(f.body.kids)].k \in {"ReturnVoid", "ReturnExpr"}

\* the functions emitted so far
Emitted == {unit.fun_decls[i] : i \in 1..(fi - 1)}

\* a function whose body ends in a loop with a break and a return inside
\* a branch has been emitted
ReturnCoverageWitness ==
    /\ pc = "funs"
    /\ \E f \in Emitted :
          /\ ~LastTopLevelIsReturn(f)
          /\ f.body.kids # <<>>
          /\ f.body.kids[Len(f.body.kids)].k \in {"While", "If"}
          /\ \E sp \in Spans("stmt") : sp.tag \in {"Break", "ReturnExpr"}

\* the text from the end of the body of function name to the end of its code
AfterBody(name) ==
    LET b == CHOOSE sp \in Spans("body") : sp.tag = name
        f == CHOOSE sp \in Spans("fun") : sp.tag = name
    IN  SubSeq(out, b.hi + 1, f.hi)

\* C6: the code of a function ends with an appended push 0; ret exactly
\* when the last statement at the top level of its body is not a return;
\* nothing is appended otherwise.
FinalReturn ==
    pc = "funs" =>
        \A f \in Emitted :
            AfterBody(f.name) =
                IF LastTopLevelIsReturn(f) THEN <<>> ELSE <<InsN("push", 0), Ins("ret")>>

\* a function whose only return is nested in a block, and one that ends in
\* a return, have been emitted
FinalReturnWitness ==
    /\ pc = "funs"
    /\ \E f, g \in Emitted :
          /\ ~LastTopLevelIsReturn(f)
          /\ f.body.kids # <<>>
          /\ f.body.kids[Len(f.body.kids)] = SBlock(<<SReturnVoid>>)
          /\ LastTopLevelIsReturn(g)
          /\ Len(g.body.kids) > 1

(***************************************************************************)
(* Errors.  The Breaks and Continues of a unit that have no loop around    *)
(* them, in the order the generator comes to them, read off the AST.  The  *)
(* init of a For is outside the For, its body inside.                      *)
(***************************************************************************)
RECURSIVE Strays(_, _), StraysOfList(_, _)
Strays(s, in_loop) ==
    CASE s.k \in {"Break", "Continue"} -> IF in_loop THEN <<>> ELSE <<s.k>>
      [] s.k = "If" -> Strays(s.kids[1], in_loop) \o StraysOfList(s.els, in_loop)
      [] s.k \in {"While", "DoWhile"} -> Strays(s.kids[1], TRUE)
      [] s.k = "For" -> StraysOfList(s.init, in_loop) \o Strays(s.kids[1], TRUE)
      [] s.k = "Block" -> StraysOfList(s.kids, in_loop)
      [] OTHER -> <<>>
StraysOfList(l, in_loop) ==
    IF l = <<>> THEN <<>> ELSE Strays(Head(l), in_loop) \o StraysOfList(Tail(l), in_loop)

RECURSIVE UnitStrays(_)
UnitStrays(fun_decls) ==
    IF fun_decls = <<>> THEN <<>>
    ELSE Strays(Head(fun_decls).body, FALSE) \o UnitStrays(Tail(fun_decls))

\* the first of them ("none" when there is none)
FirstStray == IF UnitStrays(unit.fun_decls) = <<>> THEN "none" ELSE Head(UnitStrays(unit.fun_decls))

\* a call has returned and no other has started
Returned == pc = "idle" /\ results # <<>>
LastResult == results[Len(results)]

\* C7: a call that returns gives the error "break outside of loop context"
\* (resp. "continue outside of loop context") exactly when the first Break
\* or Continue with no loop around it that the generator comes to is a
\* Break (resp. a Continue), and gives Ok exactly when there is none.
LoopContextError ==
    Returned =>
        /\ LastResult.err = BreakMsg <=> FirstStray = "Break"
        /\ LastResult.err = ContinueMsg <=> FirstStray = "Continue"
        /\ LastResult.ok <=> FirstStray = "none"

\* C7 as stated: the break (resp. continue) error exactly when some Break
\* (resp. Continue) has no loop around it.
LoopContextErrorAsStated ==
    Returned =>
        /\ LastResult.err = BreakMsg <=> "Break" \in Range(UnitStrays(unit.fun_decls))
        /\ LastResult.err = ContinueMsg <=> "Continue" \in Range(UnitStrays(unit.fun_decls))

\* the break error for a Break in the init of a For, inside no other loop
LoopContextErrorWitness ==
    /\ Returned
    /\ LastResult.err = BreakMsg
    /\ \E i \in 1..Len(unit.fun_decls) :
          /\ unit.fun_decls[i].body.kids # <<>>
          /\ unit.fun_decls[i].body.kids[1].k = "For"
          /\ unit.fun_decls[i].body.kids[1].init = <<SBreak>>

\* the first function of the unit with a Break or Continue that has no
\* loop around it (0 when there is none)
FirstStrayFun ==
    IF \E i \in 1..Len(unit.fun_decls) : Strays(unit.fun_decls[i].body, FALSE) # <<>>
    THEN CHOOSE i \in 1..Len(unit.fun_decls) :
            /\ Strays(unit.fun_decls[i].body, FALSE) # <<>>
            /\ \A j \in 1..(i - 1) : Strays(unit.fun_decls[j].body, FALSE) = <<>>
    ELSE 0

\* C8: when a function of the unit has a Break or Continue with no loop
\* around it, the call returns an error and no text, and the loop over the
\* functions has stopped at the first such function.
FailFast ==
    Returned /\ FirstStrayFun # 0 =>
        /\ ~LastResult.ok
        /\ LastResult.text = <<>>
        /\ out = <<>>
        /\ fi = FirstStrayFun

\* the first of two functions fails and the second is one that lowers
FailFastWitness ==
    /\ Returned
    /\ ~LastResult.ok
    /\ Len(unit.fun_decls) = 2
    /\ fi = 1
    /\ Strays(unit.fun_decls[2].body, FALSE) = <<>>

(***************************************************************************)
(* The entry trampoline.                                                   *)
(***************************************************************************)
\* the instructions and labels of a text from the .code directive on
IsCode(i) == i.op \notin {"#", "#sig", "#rule", "blank", ".code"}
CodeSection(text) ==
    SelectSeq(SubSeq(text, CHOOSE i \in 1..Len(text) : text[i].op = ".code", Len(text)), IsCode)

HasMain == \E i \in 1..Len(unit.fun_decls) : unit.fun_decls[i].name = "main"

\* the text starts with: call main, 0; then exit if the byte at
\* __EVENT_LOOP_ENABLED__ is zero, and ret if it is not
StartsWithMainTrampoline(c) ==
    /\ Len(c) >= 7
    /\ c[1] = Ins4("call", Name("main"), 0, 0)
    /\ c[2] = InsL("push_label", Name("__EVENT_LOOP_ENABLED__"))
    /\ c[3] = InsN("load_u", 8)
    /\ c[4].op = "jnz"
    /\ c[5] = Ins("exit")
    /\ c[6] = Def(c[4].l)
    /\ c[7] = Ins("ret")

StartsWithExit(c) == Len(c) >= 2 /\ c[1] = InsN("push", 0) /\ c[2] = Ins("exit")

\* no label of a function of the unit among the first n places of c
NoFunctionIn(c, n) ==
    \A i \in 1..n, j \in 1..Len(unit.fun_decls) : c[i] # Def(Name(unit.fun_decls[j].name))

Deterministic == \A i, j \in 1..Len(results) : results[i] = results[j]

\* two calls have returned a text with labels made by gen_sym
DeterministicWitness ==
    /\ Len(results) = 2
    /\ results[2].ok
    /\ \E l \in DefinedLabels(results[2].text) : l.n >= 0

(***************************************************************************)
(* Operators and casts, read off the text of a function f whose body is    *)
(* one expression statement: the code of the expression, then pop.         *)
(***************************************************************************)
OneStmt == Len(unit.fun_decls) = 1 /\ Len(unit.fun_decls[1].body.kids) = 1
TheStmt == unit.fun_decls[1].body.kids[1]
TheExpr == TheStmt.e

\* the function has been emitted
Lowered == pc = "funs" /\ fi = 2

\* the code of the expression
ExprCode ==
    LET b == CHOOSE sp \in Spans("body") : TRUE IN SubSeq(out, b.lo, b.hi - 1)

\* the last n instructions of c (all of c when it is shorter)
LastN(c, n) == SubSeq(c, Max(1, Len(c) - n + 1), Len(c))

\* the statement is an expression statement of a Binary with an operator
\* among ops on operands of integer types
IntBinary(ops) ==
    /\ OneStmt
    /\ TheStmt.k = "Expr"
    /\ TheExpr.k = "Binary"
    /\ TheExpr.op \in ops
    /\ TheExpr.kids[1].t.k \in {"UInt", "Int"}
    /\ TheExpr.kids[2].t.k \in {"UInt", "Int"}

Arithmetic == {"Add", "Sub", "Mul", "Div", "Mod", "BitAnd", "BitOr", "BitXor", "LShift", "RShift"}
WidthConvention == {"Add", "Sub", "BitAnd", "BitOr", "BitXor", "LShift", "RShift"}

\* C15: the code of an arithmetic or bitwise operator on integers whose
\* result type is narrower than 32 bits ends with trunc_u of that width,
\* and an operator of the width convention takes the 64-bit instruction
\* exactly when the result type is 64 bits wide, the 32-bit one otherwise.
NarrowResultTruncated ==
    Lowered /\ IntBinary(Arithmetic) =>
        /\ TheExpr.t.n < 32 => LastN(ExprCode, 1) = <<InsN("trunc_u", TheExpr.t.n)>>
        /\ TheExpr.op \in WidthConvention =>
              \E i \in 3..Len(ExprCode) :
                  /\ ExprCode[i].n = IF TheExpr.t.n = 64 THEN 64 ELSE 32
                  /\ ExprCode[i].op \in {"add_u", "sub_u", "and_u", "or_u", "xor_u",
                                         "lshift_u", "rshift_u", "rshift_i"}

SignedMnemonic ==
    [RShift |-> "rshift_i", Lt |-> "lt_i", Le |-> "le_i", Gt |-> "gt_i", Ge |-> "ge_i"]
UnsignedMnemonic ==
    [RShift |-> "rshift_u", Lt |-> "lt_u", Le |-> "le_u", Gt |-> "gt_u", Ge |-> "ge_u"]

\* C16: the instruction of RShift, Lt, Le, Gt and Ge is the signed one
\* exactly when the types of both operands are signed, and the unsigned
\* one otherwise, whatever the type of the result.
SignedByOperands ==
    Lowered /\ IntBinary({"RShift", "Lt", "Le", "Gt", "Ge"}) =>
        ExprCode[3].op =
            IF TheExpr.kids[1].t.k = "Int" /\ TheExpr.kids[2].t.k = "Int"
            THEN SignedMnemonic[TheExpr.op]
            ELSE UnsignedMnemonic[TheExpr.op]

\* the statement is an expression statement of Add or Sub of an integer to
\* a pointer or an array
IsPointerArith ==
    /\ OneStmt
    /\ TheStmt.k = "Expr"
    /\ TheExpr.k = "Binary"
    /\ TheExpr.op \in {"Add", "Sub"}
    /\ TheExpr.kids[1].t.k \in {"Pointer", "Array"}
    /\ TheExpr.kids[2].t.k \in {"UInt", "Int"}

\* C17: Add and Sub of an integer to a pointer or an array are lowered,
\* and their code ends with push sizeof(E); mul_u64; then add_u64 (Add)
\* or sub_u64 (Sub), E the type of the element.
PointerArithScaled ==
    IsPointerArith =>
        /\ pc # "panic"
        /\ Lowered =>
              LastN(ExprCode, 3) =
                  <<InsN("push", TheExpr.kids[1].t.en \div 8), InsN("mul_u", 64),
                    InsN(IF TheExpr.op = "Add" THEN "add_u" ELSE "sub_u", 64)>>

\* the statement is an expression statement of a cast of an argument from
\* an integer type to an integer type
IsIntCast ==
    /\ OneStmt
    /\ TheStmt.k = "Expr"
    /\ TheExpr.k = "Cast"
    /\ TheExpr.nt.k \in {"UInt", "Int"}
    /\ TheExpr.kids[1].t.k \in {"UInt", "Int"}

\* C18: every cast from an integer type to an integer type is lowered,
\* and the code after the child is trunc_u{m} when the width m of the new
\* type is less than the child's, and nothing otherwise.
IntCastNarrows ==
    IsIntCast =>
        /\ pc # "panic"
        /\ Lowered =>
              ExprCode = <<InsN("get_arg", 0)>>
                         \o (IF TheExpr.nt.n < TheExpr.kids[1].t.n
                             THEN <<InsN("trunc_u", TheExpr.nt.n)>> ELSE <<>>)

(***************************************************************************)
(* Declarations of locals.                                                 *)
(***************************************************************************)
\* the statement of f is a VarDecl: at the top level of the body, inside a
\* Block, or the init of a For
IsVarDecl ==
    /\ OneStmt
    /\ \/ TheStmt.k = "VarDecl"
       \/ TheStmt.k = "Block" /\ TheStmt.kids # <<>> /\ TheStmt.kids[1].k = "VarDecl"
       \/ TheStmt.k = "For" /\ TheStmt.init # <<>> /\ TheStmt.init[1].k = "VarDecl"

\* C20: a VarDecl handed to the statement emitter is lowered: the run goes
\* on, and the code of the VarDecl evaluates the initializer, stores it in
\* the slot of the local and leaves the stack depth as it was.
VarDeclLowered ==
    IsVarDecl =>
        /\ pc # "panic"
        /\ Lowered =>
              \E sp \in Spans("stmt") :
                  /\ sp.tag = "VarDecl"
                  /\ Code(sp) = <<InsN("push", 1), InsN("set_local", 0)>>
                  /\ FallDepths(Code(sp)) = {0}

\* the error values the caller is told of a construct that is not lowered
UnsupportedErrors ==
    {"UnsupportedCast", "UnsupportedInitializer", "UnsupportedCallee", "UnsupportedConstruct"}

\* the forms of a global's initializer the match of Unit::gen_code has an arm for
InitInTable(g) ==
    \/ g.init_expr = <<>>
    \/ g.var_type.k \in {"UInt", "Int", "Pointer"} /\ g.init_expr[1].k = "Int"
    \/ g.var_type.k = "Pointer" /\ g.init_expr[1].k = "String"

\* the unit holds a construct the generator has no arm for
HasUnlowered ==
    \/ OneStmt /\ TheStmt.k = "Expr" /\ TheExpr \in UnloweredExprs
    \/ \E i \in DOMAIN unit.global_vars : ~InitInTable(unit.global_vars[i])

\* C21: a construct the generator does not lower (a cast outside the table,
\* an initializer outside the table, a Call of a callee that is no direct
\* function reference, an AddressOf, an assignment to an unsupported
\* destination) never aborts the generator: Unit::gen_code returns, and
\* what it returns is one of the Unsupported error values.
UnsupportedReturnsError ==
    HasUnlowered =>
        /\ pc # "panic"
        /\ Returned => ~LastResult.ok /\ LastResult.err \in UnsupportedErrors

(***************************************************************************)
(* The VM running a stretch of the text: ip the place in the text, stack   *)
(* the operand stack above the frame (top last), args and locals the       *)
(* slots of the frame, mem the heap by address, ran the places executed,   *)
(* halt why it stopped ("run" while it has not).  The address of a label   *)
(* is its place in the text.  Words are kept below 2^31, where the 64-bit  *)
(* instructions and sx_i32_i64 do not wrap.                                *)
(***************************************************************************)
MaxSteps == 40

Machine(ip, args, locals) ==
    [ip |-> ip, stack |-> <<>>, args |-> args, locals |-> locals,
     mem |-> <<>>, ran |-> {}, halt |-> "run"]

Top(m) == m.stack[Len(m.stack)]
Below(m) == m.stack[Len(m.stack) - 1]
Drop(m, n) == SubSeq(m.stack, 1, Len(m.stack) - n)

\* the low n bits of v
TruncU(v, n) == IF n >= 31 THEN v ELSE v % (2 ^ n)

\* the word at address a of the heap (zero until written)
Load(mem, a) ==
    IF \E i \in 1..Len(mem) : mem[i].a = a
    THEN mem[CHOOSE i \in 1..Len(mem) :
                 mem[i].a = a /\ \A j \in (i + 1)..Len(mem) : mem[j].a # a].v
    ELSE 0

\* the instructions that pop two words and push one, and the word pushed
Binop(i, a, b) ==
    CASE i.op = "add_u" -> TruncU(a + b, i.n)
      [] i.op = "sub_u" -> TruncU(a - b, i.n)
      [] i.op = "mul_u" -> TruncU(a * b, i.n)
      [] i.op = "eq_u" -> IF a = b THEN 1 ELSE 0
      [] i.op = "ne_u" -> IF a # b THEN 1 ELSE 0
      [] i.op \in {"lt_u", "lt_i"} -> IF a < b THEN 1 ELSE 0
      [] i.op \in {"le_u", "le_i"} -> IF a <= b THEN 1 ELSE 0
      [] i.op \in {"gt_u", "gt_i"} -> IF a > b THEN 1 ELSE 0
      [] i.op \in {"ge_u", "ge_i"} -> IF a >= b THEN 1 ELSE 0
      [] OTHER -> -1

Binops == {"add_u", "sub_u", "mul_u", "eq_u", "ne_u", "lt_u", "lt_i", "le_u", "le_i",
           "gt_u", "gt_i", "ge_u", "ge_i"}

\* the words an instruction takes from the stack
Takes(i) ==
    CASE i.op \in Binops \cup {"store_u", "swap"} -> 2
      [] i.op \in {"pop", "dup", "set_arg", "set_local", "load_u", "trunc_u",
                   "sx_i32_i64", "jz", "jnz", "ret"} -> 1
      [] i.op = "getn" -> i.n + 1
      [] OTHER -> 0

\* one instruction of text at m.ip
Step(text, m) ==
    LET i == text[m.ip]
        n == [m EXCEPT !.ip = @ + 1, !.ran = @ \cup {m.ip}]
        to(l) == [n EXCEPT !.ip = LabelPos(text, l)]
    IN  IF Len(m.stack) < Takes(i) THEN [m EXCEPT !.halt = "underflow"]
        ELSE CASE i.op \in {"label", "#", "#sig", "blank"} -> [m EXCEPT !.ip = @ + 1]
          [] i.op = "push" -> [n EXCEPT !.stack = Append(@, i.n)]
          [] i.op = "push_label" -> [n EXCEPT !.stack = Append(@, LabelPos(text, i.l))]
          [] i.op = "get_arg" -> [n EXCEPT !.stack = Append(@, m.args[i.n + 1])]
          [] i.op = "get_local" -> [n EXCEPT !.stack = Append(@, m.locals[i.n + 1])]
          [] i.op = "set_arg" -> [n EXCEPT !.stack = Drop(m, 1), !.args[i.n + 1] = Top(m)]
          [] i.op = "set_local" -> [n EXCEPT !.stack = Drop(m, 1), !.locals[i.n + 1] = Top(m)]
          [] i.op = "pop" -> [n EXCEPT !.stack = Drop(m, 1)]
          [] i.op = "dup" -> [n EXCEPT !.stack = Append(@, Top(m))]
          [] i.op = "swap" -> [n EXCEPT !.stack = Drop(m, 2) \o <<Top(m), Below(m)>>]
          [] i.op = "getn" -> [n EXCEPT !.stack = Append(@, m.stack[Len(m.stack) - i.n])]
          [] i.op = "load_u" ->
                [n EXCEPT !.stack = Append(Drop(m, 1), TruncU(Load(m.mem, Top(m)), i.n))]
          [] i.op = "store_u" ->
                [n EXCEPT !.stack = Drop(m, 2),
                          !.mem = Append(@, [a |-> Below(m), v |-> TruncU(Top(m), i.n)])]
          [] i.op = "trunc_u" -> [n EXCEPT !.stack = Append(Drop(m, 1), TruncU(Top(m), i.n))]
          [] i.op = "sx_i32_i64" -> n
          [] i.op \in Binops ->
                [n EXCEPT !.stack = Append(Drop(m, 2), Binop(i, Below(m), Top(m)))]
          [] i.op = "jmp" -> to(i.l)
          [] i.op = "jz" -> [(IF Top(m) = 0 THEN to(i.l) ELSE n) EXCEPT !.stack = Drop(m, 1)]
          [] i.op = "jnz" -> [(IF Top(m) # 0 THEN to(i.l) ELSE n) EXCEPT !.stack = Drop(m, 1)]
          [] i.op = "ret" -> [n EXCEPT !.halt = "ret"]
          [] i.op = "exit" -> [n EXCEPT !.halt = "exit"]
          [] OTHER -> [m EXCEPT !.halt = "unknown"]

RECURSIVE Run(_, _, _, _)
\* the machine run on from m until it leaves text[..hi], stops, or has
\* taken fuel steps
Run(text, hi, m, fuel) ==
    IF m.halt # "run" THEN m
    ELSE IF m.ip > hi \/ m.ip < 1 THEN [m EXCEPT !.halt = "fell"]
    ELSE IF fuel = 0 THEN [m EXCEPT !.halt = "fuel"]
    ELSE Run(text, hi, Step(text, m), fuel - 1)

\* the words of the arguments the runs are tried on
ArgValues == {0, 1, 2, 300}

\* the body of f run in a frame of two arguments and one local
RunBody(a, b) ==
    LET sp == CHOOSE x \in Spans("body") : TRUE
    IN  Run(out, sp.hi, Machine(sp.lo, <<a, b>>, <<0>>), MaxSteps)

(***************************************************************************)
(* Logical And and Or.                                                     *)
(***************************************************************************)
RECURSIVE Truth(_, _, _)
\* the value of an expression of literals, arguments, And and Or, read off
\* the AST
Truth(e, a, b) ==
    CASE e.k = "Int" -> e.n
      [] e.k = "Ref" -> IF e.d.idx = 0 THEN a ELSE b
      [] e.op = "And" ->
            IF Truth(e.kids[1], a, b) # 0 /\ Truth(e.kids[2], a, b) # 0 THEN 1 ELSE 0
      [] OTHER ->
            IF Truth(e.kids[1], a, b) # 0 \/ Truth(e.kids[2], a, b) # 0 THEN 1 ELSE 0

\* the statement of f returns an And or an Or whose right operand is the
\* second argument
IsLogic ==
    /\ OneStmt
    /\ TheStmt.k = "ReturnExpr"
    /\ TheExpr.k = "Binary"
    /\ TheExpr.op \in {"And", "Or"}
    /\ TheExpr.kids[2] = B

\* the run has executed the code of the right operand
RanRight(m) == \E i \in m.ran : out[i] = InsN("get_arg", 1)

\* the left operand leaves the result open
Undecided(e, a, b) ==
    IF e.op = "And" THEN Truth(e.kids[1], a, b) # 0 ELSE Truth(e.kids[1], a, b) = 0

\* C13: for all values of the operands the code of And leaves 1 when both
\* are non-zero and 0 otherwise, the code of Or 1 when either is non-zero
\* and 0 otherwise, as the only word; and the code of the right operand
\* runs only when the left operand leaves the result open.
ShortCircuit ==
    Lowered /\ IsLogic =>
        \A a, b \in ArgValues :
            /\ RunBody(a, b).halt = "ret"
            /\ RunBody(a, b).stack = <<Truth(TheExpr, a, b)>>
            /\ RanRight(RunBody(a, b)) => Undecided(TheExpr, a, b)

\* an Or whose left operand is itself an Or of an And has been lowered
ShortCircuitWitness ==
    /\ Lowered
    /\ IsLogic
    /\ TheExpr.op = "Or"
    /\ TheExpr.kids[1].k = "Binary"
    /\ TheExpr.kids[1].kids[1].k = "Binary"
    /\ RanRight(RunBody(0, 2))
    /\ ~RanRight(RunBody(2, 0))

(***************************************************************************)
(* Assignments.                                                            *)
(***************************************************************************)
\* what the destination of an assignment holds once the machine has
\* stopped in m: a is the word the first argument had on entry (the
\* address, when the destination is *arg0)
Held(dest, m, a) ==
    CASE dest.k = "Unary" -> Load(m.mem, a)
      [] dest.d.k = "Arg" -> m.args[dest.d.idx + 1]
      [] dest.d.k = "Local" -> m.locals[dest.d.idx + 1]
      [] OTHER -> Load(m.mem, LabelPos(out, Name(dest.d.name)))

\* the bits of the words a destination holds
DestBits(dest) == IF dest.t.k \in {"UInt", "Int"} THEN dest.t.n ELSE 64

\* the word v is a value of the type of dest
Fits(v, dest) == TruncU(v, DestBits(dest)) = v

\* the statement of f is dest = arg1, arg1 of the type of dest
IsAssign(e) ==
    /\ e.k = "Binary"
    /\ e.op = "Assign"
    /\ e.kids[2] = TArg(1, e.kids[1].t)

\* the statement of f is outer = inner = arg1
IsNestedAssign ==
    /\ OneStmt
    /\ TheStmt.k = "Expr"
    /\ TheExpr.k = "Binary"
    /\ TheExpr.op = "Assign"
    /\ IsAssign(TheExpr.kids[2])

\* C11: an assignment whose value is needed (the inner one of
\* outer = inner = c) stores c in its destination and leaves c as one word,
\* which the outer assignment stores in turn; an assignment whose value is
\* discarded makes the same store and leaves the stack as it was.
AssignLeavesValue ==
    Lowered /\ OneStmt /\ TheStmt.k = "Expr" =>
        /\ IsNestedAssign =>
              \A a, b \in ArgValues :
                  Fits(b, TheExpr.kids[2].kids[1]) =>
                      /\ RunBody(a, b).halt = "fell"
                      /\ RunBody(a, b).stack = <<>>
                      /\ Held(TheExpr.kids[2].kids[1], RunBody(a, b), a) = b
                      /\ Held(TheExpr.kids[1], RunBody(a, b), a) = b
        /\ IsAssign(TheExpr) =>
              \A a, b \in ArgValues :
                  Fits(b, TheExpr.kids[1]) =>
                      /\ RunBody(a, b).halt = "fell"
                      /\ RunBody(a, b).stack = <<>>
                      /\ Held(TheExpr.kids[1], RunBody(a, b), a) = b

\* g = *arg0 = arg1 has been lowered and run
AssignLeavesValueWitness ==
    /\ Lowered
    /\ IsNestedAssign
    /\ TheExpr.kids[1] = ERef(DG)
    /\ TheExpr.kids[2].kids[1].k = "Unary"
    /\ Held(ERef(DG), RunBody(300, 2), 300) = 2

(***************************************************************************)
(* References to globals.                                                  *)
(***************************************************************************)
\* the statement of f is an expression statement of a reference to a global
IsGlobalRef ==
    /\ OneStmt
    /\ TheStmt.k = "Expr"
    /\ TheExpr.k = "Ref"
    /\ TheExpr.d.k = "Global"

\* the load the type of a global calls for
LoadFor(t) ==
    CASE t.k = "UInt" -> <<InsN("load_u", t.n)>>
      [] t.k = "Int" /\ t.n = 64 -> <<InsN("load_u", 64)>>
      [] t.k = "Int" /\ t.n = 32 -> <<InsN("load_u", 32), Ins("sx_i32_i64")>>
      [] t.k = "Pointer" -> <<InsN("load_u", 64)>>
      [] OTHER -> <<>>

\* the body of f assigns the second argument to a global and returns the
\* global
IsRoundTrip ==
    /\ Len(unit.fun_decls) = 1
    /\ Len(unit.fun_decls[1].body.kids) = 2
    /\ unit.fun_decls[1].body.kids[1].k = "Expr"
    /\ IsAssign(unit.fun_decls[1].body.kids[1].e)
    /\ unit.fun_decls[1].body.kids[2] = SReturnExpr(unit.fun_decls[1].body.kids[1].e.kids[1])

\* C19: the code of a reference to a global is push name and then the load
\* its type calls for (none for an Array), and a global that has been
\* assigned a value of its type reads back that value.
GlobalReadsBack ==
    /\ Lowered /\ IsGlobalRef =>
          ExprCode = <<InsL("push_label", Name(TheExpr.d.name))>> \o LoadFor(TheExpr.d.t)
    /\ Lowered /\ IsRoundTrip =>
          \A b \in ArgValues :
              Fits(b, unit.fun_decls[1].body.kids[2].e) =>
                  /\ RunBody(0, b).halt = "ret"
                  /\ RunBody(0, b).stack = <<b>>

(***************************************************************************)
(* Break and continue, read off the text.  The code of a loop ends with    *)
(* the definition of its break label; its body is the text after the jz    *)
(* to that label (after the loop label, in a DoWhile) and before the jump  *)
(* back (before the continue label, in a DoWhile and a For).               *)
(***************************************************************************)
LoopSpans == {sp \in Spans("stmt") : sp.tag \in {"While", "DoWhile", "For"}}

\* the place of the last definition in sp of a label made with prefix
LastDef(sp, prefix) ==
    CHOOSE i \in sp.lo..sp.hi :
        /\ out[i].op = "label" /\ out[i].l.p = prefix
        /\ \A j \in (i + 1)..sp.hi : ~(out[j].op = "label" /\ out[j].l.p = prefix)

\* the place of the jz of the loop sp to its break label
TestJump(sp) == CHOOSE i \in sp.lo..sp.hi : out[i] = InsL("jz", out[sp.hi].l)

\* the first and the last place of the body of the loop sp
BodyLo(sp) == IF sp.tag = "DoWhile" THEN sp.lo + 1 ELSE TestJump(sp) + 1
BodyHi(sp) ==
    CASE sp.tag = "While" -> sp.hi - 2
      [] sp.tag = "DoWhile" -> LastDef(sp, "dowhile_cont") - 1
      [] OTHER -> LastDef(sp, "for_cont") - 1

\* the loops whose body holds place i, and the innermost of them
LoopsAround(i) == {sp \in LoopSpans : BodyLo(sp) <= i /\ i <= BodyHi(sp)}
Innermost(i) ==
    CHOOSE sp \in LoopsAround(i) : \A other \in LoopsAround(i) : other.lo <= sp.lo

\* where a continue in the body of the loop sp is to go: the loop label
\* before the test of a While; the label between the body and the test of
\* a DoWhile; the label between the body and the increment of a For
ContinuePlace(sp) ==
    CASE sp.tag = "While" -> sp.lo
      [] sp.tag = "DoWhile" -> BodyHi(sp) + 1
      [] OTHER -> BodyHi(sp) + 1

\* the code of a For from its continue label on is the increment, pop and
\* the jump back to the test; that of a DoWhile is the test and the jumps
TailAfterContinue(sp) ==
    CASE sp.tag = "For" ->
            /\ out[sp.hi - 2] = Ins("pop")
            /\ out[sp.hi - 1].op = "jmp"
            /\ LabelPos(out, out[sp.hi - 1].l) < TestJump(sp)
            /\ sp.hi - 2 > BodyHi(sp) + 1
      [] sp.tag = "DoWhile" ->
            /\ TestJump(sp) = sp.hi - 2
            /\ out[sp.hi - 1] = InsL("jmp", out[sp.lo].l)
            /\ sp.hi - 2 > BodyHi(sp) + 1
      [] OTHER -> out[sp.hi - 1] = InsL("jmp", out[sp.lo].l)

\* C14: every Break and Continue the generator has lowered jumps to a
\* label of the innermost loop whose body holds it: a Break to the label
\* that ends the loop's code; a Continue to the loop label before the test
\* of a While, to the label between body and test of a DoWhile, to the
\* label between body and increment of a For.
InnermostLoopTargets ==
    pc = "funs" =>
        \A sp \in Spans("stmt") :
            sp.tag \in {"Break", "Continue"} =>
                /\ LoopsAround(sp.lo) # {}
                /\ Code(sp) = <<InsL("jmp", out[sp.lo].l)>>
                /\ LabelPos(out, out[sp.lo].l) =
                      IF sp.tag = "Break" THEN Innermost(sp.lo).hi
                      ELSE ContinuePlace(Innermost(sp.lo))
                /\ TailAfterContinue(Innermost(sp.lo))

\* a For in a DoWhile has been lowered, with a continue in the body of the
\* For and a break in the DoWhile after the For has ended
InnermostLoopTargetsWitness ==
    /\ pc = "funs"
    /\ \E b, c \in Spans("stmt") :
          /\ b.tag = "Break" /\ c.tag = "Continue"
          /\ c.lo < b.lo
          /\ Innermost(c.lo).tag = "For"
          /\ Innermost(b.lo).tag = "DoWhile"
          /\ Innermost(c.lo).hi < b.lo
          /\ Innermost(b.lo).lo < Innermost(c.lo).lo


(***************************************************************************)
(* The two forms of an assignment to memory.                               *)
(***************************************************************************)
\* the body of f is dest = v; return dest = v; with dest a Deref or a Global
IsBothForms ==
    /\ Len(unit.fun_decls) = 1
    /\ Len(unit.fun_decls[1].body.kids) = 2
    /\ unit.fun_decls[1].body.kids[1].k = "Expr"
    /\ unit.fun_decls[1].body.kids[1].e.k = "Binary"
    /\ unit.fun_decls[1].body.kids[1].e.op = "Assign"
    /\ unit.fun_decls[1].body.kids[2] = SReturnExpr(unit.fun_decls[1].body.kids[1].e)
    /\ \/ unit.fun_decls[1].body.kids[1].e.kids[1].k = "Unary"
       \/ unit.fun_decls[1].body.kids[1].e.kids[1].d.k = "Global"

\* the places of the stores in the body of f
Stores ==
    LET sp == CHOOSE x \in Spans("body") : TRUE
    IN  {p \in sp.lo..sp.hi : out[p].op = "store_u"}
FirstStore == CHOOSE p \in Stores : \A q \in Stores : p <= q
SecondStore == CHOOSE p \in Stores : \A q \in Stores : q <= p

\* the machine as it comes to place p of the body of f
RunTo(p, a, b) ==
    LET sp == CHOOSE x \in Spans("body") : TRUE
    IN  Run(out, p - 1, Machine(sp.lo, <<a, b>>, <<0>>), MaxSteps)

\* the address of dest and the word v evaluates to, read off the AST
AddrWord(dest, a, b) ==
    CASE dest.k = "Ref" -> LabelPos(out, Name(dest.d.name))
      [] dest.kids[1].k = "Ref" -> a
      [] OTHER -> a + b
ValueWord(v, a, b) ==
    CASE v.k = "Int" -> v.n
      [] v.k = "Ref" -> b
      [] OTHER -> a + b

\* C22: the value-discarded and the value-needed form of an assignment to a
\* Deref or a Global come to store_u{n} of the same n with the value on top
\* of the stack and the address of the destination directly below it, so
\* both write the same value to the same address, and the value-needed form
\* differs by the one word, the value, it leaves behind.
SameStoreLayout ==
    Lowered /\ IsBothForms =>
        LET e == unit.fun_decls[1].body.kids[1].e
        IN  /\ Cardinality(Stores) = 2
            /\ out[FirstStore] = out[SecondStore]
            /\ \A a, b \in ArgValues :
                  /\ RunTo(FirstStore, a, b).halt = "fell"
                  /\ RunTo(FirstStore, a, b).ip = FirstStore
                  /\ RunTo(FirstStore, a, b).stack =
                        <<AddrWord(e.kids[1], a, b), ValueWord(e.kids[2], a, b)>>
                  /\ RunTo(SecondStore, a, b).halt = "fell"
                  /\ RunTo(SecondStore, a, b).ip = SecondStore
                  /\ RunTo(SecondStore, a, b).stack =
                        <<ValueWord(e.kids[2], a, b),
                          AddrWord(e.kids[1], a, b), ValueWord(e.kids[2], a, b)>>
                  /\ RunBody(a, b).halt = "ret"
                  /\ RunBody(a, b).stack = <<ValueWord(e.kids[2], a, b)>>
                  /\ Len(RunBody(a, b).mem) = 2
                  /\ RunBody(a, b).mem[1] = RunBody(a, b).mem[2]

\* *(arg0 + arg1) = arg0 + arg1 has been lowered in both forms and run
SameStoreLayoutWitness ==
    /\ Lowered
    /\ IsBothForms
    /\ unit.fun_decls[1].body.kids[1].e.kids[1].k = "Unary"
    /\ unit.fun_decls[1].body.kids[1].e.kids[1].kids[1].k = "Binary"
    /\ unit.fun_decls[1].body.kids[1].e.kids[2].k = "Binary"
    /\ RunBody(300, 2).mem = <<[a |-> 302, v |-> 46], [a |-> 302, v |-> 46]>>

(***************************************************************************)
(* The syscall registry tool, src/api/src/main.rs.                         *)
(*                                                                         *)
(* A string is the sequence of the codes of its characters, an Option is a *)
(* sequence of at most one element, a SysCall and a SubSystem are records  *)
(* of the fields main reads (of args only its length is read).             *)
(***************************************************************************)
None == <<>>
Some(x) == <<x>>

SysCall(name, args, const_idx) == [name |-> name, args |-> args, const_idx |-> const_idx]
SubSystem(subsystem, syscalls) == [subsystem |-> subsystem, syscalls |-> syscalls]

\* char::is_ascii_alphabetic, char::is_ascii_alphanumeric, str::to_lowercase
IsAsciiAlphabetic(ch) == ch \in 65..90 \/ ch \in 97..122
IsAsciiAlphanumeric(ch) == IsAsciiAlphabetic(ch) \/ ch \in 48..57
ToLowercase(name) == [i \in DOMAIN name |-> IF name[i] \in 65..90 THEN name[i] + 32 ELSE name[i]]

\* fn is_valid_ident
IsValidIdent(name) ==
    IF Len(name) = 0 THEN FALSE
    ELSE IF name # ToLowercase(name) THEN FALSE
    ELSE IF name[1] # 95 /\ ~IsAsciiAlphabetic(name[1]) THEN FALSE
    ELSE \A i \in DOMAIN name : ~(name[i] # 95 /\ ~IsAsciiAlphanumeric(name[i]))

\* `as u16`
U16(n) == n % 65536

\* Vec::resize(new_len, None) of a vector that is shorter than new_len
Resize(v, new_len) == v \o [i \in 1..(new_len - Len(v)) |-> None]

\* the loop of lines 111-115 finds an index that maps to no name
HasGapNever(v) == FALSE
HasGap(v) == \E idx \in DOMAIN v : v[idx] = None

\* the registries the tool is run over
MaxIdx == 2
MaxSyscalls == 2
MaxSubsystems == 2

ValidNames == {<<97>>, <<98, 49>>, <<95, 99>>}
InvalidNames == {<<>>, <<65>>, <<49, 97>>, <<97, 45>>}

SysCalls ==
    {SysCall(n, 0, c) : n \in ValidNames, c \in {None} \cup {Some(i) : i \in 0..MaxIdx}}
        \cup {SysCall(n, 0, None) : n \in InvalidNames}
        \cup {SysCall(<<97>>, 1, None), SysCall(<<97>>, 2, None)}

SysCallLists(k) == UNION {[1..n -> SysCalls] : n \in 0..k}

Registries ==
    UNION {[1..n -> {SubSystem(<<97>>, l) : l \in SysCallLists(MaxSyscalls)}
                        \cup {SubSystem(<<98, 49>>, l) : l \in SysCallLists(1)}
                        \cup {SubSystem(<<65>>, <<>>)}]
               : n \in 0..MaxSubsystems}

\* the compiler does not run
CodegenOff ==
    /\ unit = <<>>
    /\ pc = "off"
    /\ calls = 0
    /\ fi = 0
    /\ out = <<>>
    /\ sym = 0
    /\ log = <<>>
    /\ spans = <<>>
    /\ results = <<>>

InitApi ==
    /\ CodegenOff
    /\ syscalls_json \in Registries
    /\ input = syscalls_json
    /\ subsystems = <<>>
    /\ idx_to_name = <<>>
    /\ unique_names = {}
    /\ tpc = "start"
    /\ si = 0
    /\ sj = 0

\* lines 63-69: the file is read and deserialized
ReadRegistry ==
    /\ tpc = "start"
    /\ subsystems' = syscalls_json
    /\ unique_names' = {}
    /\ idx_to_name' = <<>>
    /\ tpc' = "scan"
    /\ si' = 1
    /\ sj' = 0
    /\ UNCHANGED <<syscalls_json, input>>
    /\ UNCHANGED codegenvars

\* lines 73-76: the next subsystem of the first loop
CheckSubsystem ==
    /\ tpc = "scan"
    /\ si <= Len(subsystems)
    /\ sj = 0
    /\ IF ~IsValidIdent(subsystems[si].subsystem)
       THEN tpc' = "panic" /\ sj' = sj
       ELSE tpc' = tpc /\ sj' = 1
    /\ UNCHANGED <<syscalls_json, input, subsystems, idx_to_name, unique_names, si>>
    /\ UNCHANGED codegenvars

\* lines 95-106: the map of indices to names is filled
FillIndex(syscall) ==
    IF syscall.const_idx # None
    THEN LET const_idx == syscall.const_idx[1]
             v == IF const_idx >= Len(idx_to_name) THEN Resize(idx_to_name, const_idx + 1)
                  ELSE idx_to_name
         IN  IF v[const_idx + 1] # None
             THEN tpc' = "panic" /\ idx_to_name' = v
             ELSE tpc' = tpc /\ idx_to_name' = [v EXCEPT ![const_idx + 1] = Some(syscall.name)]
    ELSE tpc' = tpc /\ idx_to_name' = idx_to_name

\* lines 79-106: the next syscall of the subsystem
CheckSyscall ==
    /\ tpc = "scan"
    /\ si <= Len(subsystems)
    /\ sj >= 1
    /\ sj <= Len(subsystems[si].syscalls)
    /\ LET syscall == subsystems[si].syscalls[sj]
       IN  IF \/ ~IsValidIdent(syscall.name)
              \/ syscall.args % 2 # 0
              \/ syscall.name \in unique_names
           THEN tpc' = "panic" /\ UNCHANGED <<unique_names, idx_to_name>>
           ELSE /\ unique_names' = unique_names \cup {syscall.name}
                /\ FillIndex(syscall)
    /\ sj' = sj + 1
    /\ UNCHANGED <<syscalls_json, input, subsystems, si>>
    /\ UNCHANGED codegenvars

\* lines 79, 107: the syscalls of the subsystem are exhausted
EndSubsystem ==
    /\ tpc = "scan"
    /\ si <= Len(subsystems)
    /\ sj > Len(subsystems[si].syscalls)
    /\ si' = si + 1
    /\ sj' = 0
    /\ UNCHANGED <<syscalls_json, input, subsystems, idx_to_name, unique_names, tpc>>
    /\ UNCHANGED codegenvars

\* lines 110-115: no gap may be left in the indices
CheckGaps ==
    /\ tpc = "scan"
    /\ si > Len(subsystems)
    /\ IF HasGap(idx_to_name)
       THEN tpc' = "panic" /\ UNCHANGED <<si, sj>>
       ELSE tpc' = "alloc" /\ si' = 1 /\ sj' = 1
    /\ UNCHANGED <<syscalls_json, input, subsystems, idx_to_name, unique_names>>
    /\ UNCHANGED codegenvars

\* lines 119-127: the next syscall of the second loop
Allocate ==
    /\ tpc = "alloc"
    /\ si <= Len(subsystems)
    /\ sj <= Len(subsystems[si].syscalls)
    /\ LET syscall == subsystems[si].syscalls[sj]
       IN  IF syscall.const_idx = None
           THEN LET const_idx == U16(Len(idx_to_name))
                IN  /\ subsystems' = [subsystems EXCEPT
                            ![si].syscalls[sj].const_idx = Some(const_idx)]
                    /\ idx_to_name' = Append(idx_to_name, Some(syscall.name))
           ELSE UNCHANGED <<subsystems, idx_to_name>>
    /\ sj' = sj + 1
    /\ UNCHANGED <<syscalls_json, input, unique_names, tpc, si>>
    /\ UNCHANGED codegenvars

\* lines 118, 128: the syscalls of the subsystem are exhausted
AllocateEndSubsystem ==
    /\ tpc = "alloc"
    /\ si <= Len(subsystems)
    /\ sj > Len(subsystems[si].syscalls)
    /\ si' = si + 1
    /\ sj' = 1
    /\ UNCHANGED <<syscalls_json, input, subsystems, idx_to_name, unique_names, tpc>>
    /\ UNCHANGED codegenvars

\* lines 130-134: the data is serialized and written back to the file
WriteBack ==
    /\ tpc = "alloc"
    /\ si > Len(subsystems)
    /\ syscalls_json' = subsystems
    /\ tpc' = "done"
    /\ UNCHANGED <<input, subsystems, idx_to_name, unique_names, si, sj>>
    /\ UNCHANGED codegenvars

NextApi ==
    \/ ReadRegistry
    \/ CheckSubsystem
    \/ CheckSyscall
    \/ EndSubsystem
    \/ CheckGaps
    \/ Allocate
    \/ AllocateEndSubsystem
    \/ WriteBack

SpecApi == InitApi /\ [][NextApi]_vars

\* the syscalls of a registry in file order
RECURSIVE AllSyscalls(_)
AllSyscalls(registry) ==
    IF registry = <<>> THEN <<>>
    ELSE Head(registry).syscalls \o AllSyscalls(Tail(registry))

\* the highest index the syscalls came with, -1 when none came with one
Highest(old) ==
    LET given == {old[i].const_idx[1] : i \in {j \in DOMAIN old : old[j].const_idx # None}}
    IN  IF given = {} THEN -1 ELSE CHOOSE h \in given : \A g \in given : g <= h

\* the syscalls before the i-th that came without an index
EarlierNew(old, i) == Cardinality({j \in 1..(i - 1) : old[j].const_idx = None})

=============================================================================
